---- MODULE Spec2Model ----
(***************************************************************************)
(* A model of the generation orchestration code of youtube-tool:          *)
(*   - GenerateScript (src/src/main/GenerateScript.ts), the outline and   *)
(*     15-section sequencer with its conversation history;                *)
(*   - RateLimiter.waitIfNeeded, retryWithBackoff, splitContentIntoChunks *)
(*     and joinWavFiles with the WAV header code                          *)
(*     (src/src/main/GenerateAudio.ts, src/unnamed/part_003);             *)
(*   - GenerateImage in its two copies (src/unnamed/part_003 and          *)
(*     src/src/main/GenerateImage.ts) and GenerateAudio with              *)
(*     generateChunkAudio, each as a run of its own;                      *)
(*   - two such runs interleaved, over a heap of RateLimiter objects.     *)
(* Texts are sequences of character codes, so that trim() and the         *)
(* concatenations of the code are computed and not assumed.               *)
(***************************************************************************)
EXTENDS Integers, Sequences, FiniteSets, TLC

VARIABLES
    \* ---- GenerateScript ----
    pc,                  \* position of the run: idle, outlineReq, loop, sectionReq, done, failed
    conversationHistory, \* the turns sent as `contents`
    fullScript,          \* the accumulated script text
    sectionCount,        \* the loop variable, 1-based index of the section being produced
    scriptFile,          \* content of script.txt
    outlineEvents,       \* arguments of the onOutlineGenerated calls, in order
    sectionEvents,       \* arguments of the onSectionGenerated calls, in order
    lastProgress,        \* the onProgress message of the current attempt, if any
    lastSent,            \* `contents` of the most recent remote call
    outlineCalls,        \* remote calls made for the outline
    attempts,            \* remote calls made for the section being produced (saturating)
    attemptBase,         \* the history when the current attempt began (history variable)
    outlineResponse,     \* what the service answered to the outline call
    lastResponse,        \* what the service answered to the most recent call
    lastOutcome,         \* how the most recent section attempt ended
    lastStatus,          \* status of the error of the most recent attempt (0: none)
    lastWait,            \* the setTimeout delay of the most recent attempt, in ms
    result,              \* the value GenerateScript resolved with
    thrown,              \* the cause of the error GenerateScript rejected with
    faults,              \* the abnormal attempts so far (history variable, bounded)
    \* ---- RateLimiter ----
    maxRequests, windowMs, requests, now, admissions,
    \* ---- retryWithBackoff ----
    maxRetries,          \* the maxRetries argument
    baseDelay,           \* the baseDelay argument, in ms
    capMs,               \* the cap of the copy of retryWithBackoff in use (audio or image)
    rpc,                 \* position in retryWithBackoff: ready, calling, returned, threw
    attempt,             \* the loop variable
    invocations,         \* calls of fn() so far
    waits,               \* the setTimeout delays so far, in ms
    errors,              \* the errors fn() rejected with so far
    resolved,            \* the value fn() resolved with (0: it has not resolved)
    retryLog,            \* the console.log lines of the retries: attempt number, ceiling
    retryEvents,         \* what retryWithBackoff delivered to a progress listener
    outcome,             \* what retryWithBackoff resolved or rejected with
    \* ---- splitContentIntoChunks ----
    inputContent,        \* the content argument
    maxChunkSize,        \* the maxChunkSize argument
    cpc,                 \* position: start, looping, returned
    sentences,           \* the sentences the for loop has not visited yet
    chunks,              \* the chunks array
    currentChunk,        \* the currentChunk variable
    \* ---- joinWavFiles ----
    inputFiles,          \* the files at filePaths before the call, in order
    chunkFiles,          \* the files at filePaths
    outputFile,          \* the file at outputPath (empty: no such file)
    jpc,                 \* position: start, returned
    \* ---- GenerateImage ----
    imageCopy,           \* which copy of the module runs: "limited" (part_003), "plain"
    sectionIndex,        \* the section the run is for (an argument in the limited copy)
    ipc,                 \* position: start, loop, calling, returned, failed
    imagePrompts,        \* the sub-prompts GenerateImagePrompts returned
    promptIndex,         \* the loop variable
    iattempt,            \* the loop variable of retryWithBackoff for this sub-prompt
    savedImagePaths,     \* the names of the files written by this run, in order
    imageDir,            \* the output directory: which index triples wrote each name
    imageEvents,         \* the progressCallback calls of this run, in order
    imageCalls,          \* the remote calls of this run, in order
    irequests,           \* the timestamps of this run's RateLimiter
    inow,                \* the clock of the image run, in ms
    iwaits,              \* the backoff waits of this run so far (bounded)
    ithrown,             \* the cause of the error GenerateImage rejected with
    iresult,             \* the paths GenerateImage resolved with
    promptOutcomes,      \* how each sub-prompt ended (history variable)
    \* ---- GenerateAudio ----
    apc,                 \* position: start, loop, calling, streaming, returned, failed
    chunkTotal,          \* chunks.length
    chunkIndex,          \* the loop variable
    aattempt,            \* the loop variable of retryWithBackoff for this chunk
    streamFiles,         \* chunkFiles of generateChunkAudio: the files of this chunk
    allChunkFiles,       \* the files collected from the chunks that returned
    audioDisk,           \* the fragment files in the output directory
    completeAudio,       \* COMPLETE_AUDIO.wav: the fragments joined (empty: no file)
    audioEvents,         \* the callbacks of this run, in order
    audioCalls,          \* the remote calls of this run, in order
    arequests,           \* the timestamps of this run's RateLimiter
    anow,                \* the clock of the audio run, in ms
    awaits,              \* the backoff waits of this run so far (bounded)
    athrown,             \* the cause of the error GenerateAudio rejected with
    chunkOutcomes,       \* how each chunk ended (history variable)
    abandonedAt,         \* the remote calls and events so far when the caller gave up
    fragmentLog,         \* the fragments saved, with the samples sent (history variable)
    unlinkFailed,        \* the fragments whose fs.unlink threw (history variable)
    \* ---- two runs at once ----
    runKind,             \* per run: audio or image
    runState,            \* per run: its position, unit, RateLimiter, attempt, units done
    windows,             \* per RateLimiter object: its requests
    touched,             \* per RateLimiter object: the runs that called waitIfNeeded on it
    attemptCell,         \* per retryWithBackoff activation: its attempt variable
    touchedCell,         \* per activation: the runs that read or wrote its attempt variable
    cnow                 \* the clock the runs share, in ms

scriptVars == <<pc, conversationHistory, fullScript, sectionCount, scriptFile,
                outlineEvents, sectionEvents, lastProgress, lastSent, outlineCalls,
                attempts, attemptBase, outlineResponse, lastResponse, lastOutcome,
                lastStatus, lastWait, result, thrown, faults>>
limiterVars == <<maxRequests, windowMs, requests, now, admissions>>
retryVars == <<maxRetries, baseDelay, capMs, rpc, attempt, invocations, waits, errors,
               resolved, retryLog, retryEvents, outcome>>
chunkVars == <<inputContent, maxChunkSize, cpc, sentences, chunks, currentChunk>>
wavVars == <<inputFiles, chunkFiles, outputFile, jpc>>
imageVars == <<imageCopy, sectionIndex, ipc, imagePrompts, promptIndex, iattempt,
               savedImagePaths, imageDir, imageEvents, imageCalls, irequests, inow,
               iwaits, ithrown, iresult, promptOutcomes>>
audioVars == <<apc, chunkTotal, chunkIndex, aattempt, streamFiles, allChunkFiles,
               audioDisk, completeAudio, audioEvents, audioCalls, arequests, anow,
               awaits, athrown, chunkOutcomes, abandonedAt, fragmentLog, unlinkFailed>>
runsVars == <<runKind, runState, windows, touched, attemptCell, touchedCell, cnow>>
vars == <<scriptVars, limiterVars, retryVars, chunkVars, wavVars, imageVars, audioVars,
          runsVars>>

-----------------------------------------------------------------------------
(* Bounds of the model *)

\* abnormal attempts (failures, blank responses, exceptions) recorded per script run
MaxFaults == 2
\* the service, the file system and the listener misbehave only while one of the
\* first FaultSections sections is being produced
FaultSections == 3

\* calls of waitIfNeeded on one RateLimiter
MaxCalls == 4
\* the longest pause between two calls, in steps of 1000 ms
MaxIdleSteps == 3
\* the largest maxRequests a RateLimiter is constructed with
MaxLimit == 2
\* the largest windowMs a RateLimiter is constructed with, in steps of 1000 ms
MaxWindowSteps == 3

\* the largest maxRetries retryWithBackoff is called with
MaxRetriesBound == 3
\* a baseDelay large enough for the caps to apply within MaxRetriesBound attempts
LargeBaseDelayMs == 40000

\* the longest content splitContentIntoChunks is called with, in characters
MaxTextLen == 6
\* the largest maxChunkSize splitContentIntoChunks is called with
MaxChunkSize == 4

\* the most files joinWavFiles is called with
MaxFragments == 2
\* the most bytes of sample data in one file
MaxDataLen == 2

\* the most sub-prompts one derivation response holds
MaxPrompts == 3
\* the most backoff waits in one image run or one audio run
MaxRetryWaits == 5
\* the service answers 503 or 429 only while one of the first RetryingUnits
\* sub-prompts (or chunks) of a run is generated
RetryingUnits == 1

(* Program constants *)

\* while (sectionCount <= 15)
SectionTotal == 15
\* setTimeout(resolve, 30000) after a 503
OverloadWaitMs == 30000
\* setTimeout(resolve, 5000) after any other error
OtherWaitMs == 5000
\* setTimeout(resolve, 1000) after a section
SectionPauseMs == 1000

-----------------------------------------------------------------------------
(* Texts *)

NL == 0
SP == 1
PromptChar == 2
ContinueChar == 3
OutlineTagChar == 4
ScriptTagChar == 5
BodyBase == 10

IsSpace(c) == c \in {NL, SP}

\* String.prototype.trim, computed
RECURSIVE TrimStart(_)
TrimStart(s) ==
    IF s = <<>> THEN s
    ELSE IF IsSpace(Head(s)) THEN TrimStart(Tail(s)) ELSE s

RECURSIVE TrimEnd(_)
TrimEnd(s) ==
    IF s = <<>> THEN s
    ELSE IF IsSpace(s[Len(s)]) THEN TrimEnd(SubSeq(s, 1, Len(s) - 1)) ELSE s

Trim(s) == TrimEnd(TrimStart(s))

PromptText == <<PromptChar>>
ContinueText == <<ContinueChar>>
\* the '\n\n\n' appended after every section
Delimiter == <<NL, NL, NL>>

\* the text the remote service writes for step k (0: the outline)
Body(k) == <<BodyBase + k>>
Padded(k) == <<SP>> \o Body(k) \o <<NL>>
Blank == <<SP, NL>>

UserTurn(t) == [role |-> "user", text |-> t]
ModelTurn(t) == [role |-> "model", text |-> t]

\* `OUTLINE:\n${outline}\n\n--- SCRIPT ---\n\n`
OutlineHeader(outline) ==
    <<OutlineTagChar, NL>> \o outline \o <<NL, NL, ScriptTagChar, NL, NL>>

-----------------------------------------------------------------------------
(* The remote service: what one generateContent call can produce *)

TextResponse(t) == [kind |-> "text", text |-> t, status |-> 0]
MissingResponse == [kind |-> "missing", text |-> <<>>, status |-> 0]
ErrorResponse(s) == [kind |-> "error", text |-> <<>>, status |-> s]

\* 503 overload, 429 quota, 400 other, -1 an error with no status
ErrorStatuses == {503, 429, 400, -1}

Responses(k) ==
    {TextResponse(Body(k)), TextResponse(Padded(k)), TextResponse(Blank),
     TextResponse(<<>>), MissingResponse}
    \cup {ErrorResponse(s) : s \in ErrorStatuses}

\* what a response is, seen from the service's side
ResponseKind(r) ==
    IF r.kind # "text" THEN r.kind
    ELSE IF r.text = <<>> THEN "empty"
    ELSE IF \A i \in 1..Len(r.text) : IsSpace(r.text[i]) THEN "blank"
    ELSE "text"

\* (mutant) any string counts as text, the empty one too
HasText_AnyString(r) == r.kind = "text"

\* candidates?.[0]?.content?.parts?.[0]?.text is truthy
HasText(r) == r.kind = "text" /\ r.text # <<>>

-----------------------------------------------------------------------------
(* GenerateScript *)

\* the attempt counter stops counting at a cap the bounded runs never exceed
AttemptCap == MaxFaults + 1
Bump(n) == IF n < AttemptCap THEN n + 1 ELSE n
LogFault(class) ==
    IF Len(faults) < MaxFaults
    THEN Append(faults, [k |-> sectionCount, class |-> class])
    ELSE faults

NoProgress == [msg |-> "none", k |-> 0]
Progress(m, k) == [msg |-> m, k |-> k]

\* while (sectionCount <= 15)
LoopContinues(n) == n <= SectionTotal

\* conversationHistory.push({ role: 'user', parts: [{ text: 'CONTINUE' }] })
PushContinue(h) == Append(h, UserTurn(ContinueText))

\* (mutant) the failed turn is left in the history
Pop_Keep(h) == h

\* conversationHistory.pop()
Pop(h) == SubSeq(h, 1, Len(h) - 1)

\* fullScript += sectionContent + '\n\n\n'  (and the same text appended to the file)
AppendSection(text, content) == text \o content \o Delimiter

\* the catch block of the section attempt: which message and which wait
CatchMessage(status) == IF status = 503 THEN "Service overloaded" ELSE "Error generating"
CatchWait(status) == IF status = 503 THEN OverloadWaitMs ELSE OtherWaitMs

\* (mutant) only 503 and 429 are retried, any other error ends the run
AfterCatch_FailOther(status) == IF status \in {503, 429} THEN "loop" ELSE "failed"

\* the catch block ends in `continue` for every error: the run goes back to the
\* head of the loop, whatever the status
AfterCatch(status) == "loop"

\* (mutant) the text is returned with the delimiter that follows the last section
FinalText_NoTrim(text) == text

\* return fullScript.trim()
FinalText(text) == Trim(text)

OnlyScript ==
    UNCHANGED <<limiterVars, retryVars, chunkVars, wavVars, imageVars, audioVars, runsVars>>

ScriptInit ==
    /\ pc = "idle"
    /\ conversationHistory = <<>>
    /\ fullScript = <<>>
    /\ sectionCount = 0
    /\ scriptFile = <<>>
    /\ outlineEvents = <<>>
    /\ sectionEvents = <<>>
    /\ lastProgress = NoProgress
    /\ lastSent = <<>>
    /\ outlineCalls = 0
    /\ attempts = 0
    /\ attemptBase = <<>>
    /\ outlineResponse = "none"
    /\ lastResponse = "none"
    /\ lastOutcome = "none"
    /\ lastStatus = 0
    /\ lastWait = 0
    /\ result = <<>>
    /\ thrown = "none"
    /\ faults = <<>>

\* the outer catch: onProgress(`Error: ...`), then throw new Error(`Script generation failed: ...`)
FailRun(cause) ==
    /\ pc' = "failed"
    /\ thrown' = cause
    /\ lastProgress' = Progress("Error", sectionCount)

\* ai.models.generateContent({ contents: [{ role: 'user', parts: [{ text: prompt }] }] })
RequestOutline ==
    /\ OnlyScript
    /\ pc = "idle"
    /\ pc' = "outlineReq"
    /\ lastSent' = <<UserTurn(PromptText)>>
    /\ outlineCalls' = outlineCalls + 1
    /\ lastResponse' = "none"
    /\ UNCHANGED <<conversationHistory, fullScript, sectionCount, scriptFile,
                   outlineEvents, sectionEvents, lastProgress, attempts, outlineResponse,
                   attemptBase, lastOutcome, lastStatus, lastWait, result, thrown,
                   faults>>

\* lines 47-76: the outline check, the outline event, script.txt, the initial history
OutlineArrives(r, cbThrows, fsThrows) ==
    /\ pc = "outlineReq"
    /\ lastResponse' = ResponseKind(r)
    /\ outlineResponse' = ResponseKind(r)
    /\ LET outline == Trim(r.text) IN
       IF r.kind = "error"
       THEN /\ FailRun("remote")
            /\ lastStatus' = r.status
            /\ UNCHANGED <<conversationHistory, fullScript, sectionCount, scriptFile,
                           outlineEvents>>
       ELSE IF ~HasText(r)
       THEN /\ FailRun("No outline generated.")
            /\ UNCHANGED <<conversationHistory, fullScript, sectionCount, scriptFile,
                           outlineEvents, lastStatus>>
       ELSE /\ outlineEvents' = Append(outlineEvents, outline)
            /\ IF cbThrows
               THEN /\ FailRun("listener")
                    /\ UNCHANGED <<conversationHistory, fullScript, sectionCount,
                                   scriptFile, lastStatus>>
               ELSE IF fsThrows
               THEN /\ FailRun("fs")
                    /\ UNCHANGED <<conversationHistory, fullScript, sectionCount,
                                   scriptFile, lastStatus>>
               ELSE /\ scriptFile' = OutlineHeader(outline)
                    /\ conversationHistory' = <<UserTurn(PromptText), ModelTurn(outline)>>
                    /\ fullScript' = <<>>
                    /\ sectionCount' = 1
                    /\ pc' = "loop"
                    /\ UNCHANGED <<thrown, lastProgress, lastStatus>>
    /\ faults' = IF HasText(r) /\ Trim(r.text) = <<>> THEN LogFault("blank") ELSE faults
    /\ UNCHANGED <<sectionEvents, lastSent, outlineCalls, attempts, attemptBase,
                   lastOutcome, lastWait, result>>

ReceiveOutline ==
    /\ OnlyScript
    /\ \E r \in Responses(0), cbThrows \in BOOLEAN, fsThrows \in BOOLEAN :
           /\ (HasText(r) /\ Trim(r.text) = <<>>) => Len(faults) < MaxFaults
           /\ OutlineArrives(r, cbThrows, fsThrows)

\* lines 79-97: push CONTINUE and call the service with the whole history
RequestSection ==
    /\ OnlyScript
    /\ pc = "loop"
    /\ LoopContinues(sectionCount)
    /\ attemptBase' = conversationHistory
    /\ conversationHistory' = PushContinue(conversationHistory)
    /\ lastSent' = conversationHistory'
    /\ attempts' = Bump(attempts)
    /\ pc' = "sectionReq"
    /\ lastResponse' = "none"
    /\ lastOutcome' = "none"
    /\ lastStatus' = 0
    /\ lastWait' = 0
    /\ lastProgress' = NoProgress
    /\ UNCHANGED <<fullScript, sectionCount, scriptFile, outlineEvents, sectionEvents,
                   outlineCalls, outlineResponse, result, thrown, faults>>

\* lines 128-150, entered with history h and texts already modified by the try block:
\* message, wait, pop, continue.  A listener that throws on the message ends the run
\* through the outer catch, before the wait and the pop.
CatchBlock(status, h, how, cb2Throws) ==
    /\ lastStatus' = status
    /\ lastOutcome' = how
    /\ IF cb2Throws
       THEN /\ FailRun("listener")
            /\ conversationHistory' = h
            /\ lastWait' = 0
       ELSE /\ lastProgress' = Progress(CatchMessage(status), sectionCount)
            /\ lastWait' = CatchWait(status)
            /\ conversationHistory' = Pop(h)
            /\ IF AfterCatch(status) = "loop"
               THEN pc' = "loop" /\ thrown' = thrown
               ELSE pc' = "failed" /\ thrown' = "remote"

\* lines 99-127 and 128-150: what one response, or one rejected call, does to the run
SectionArrives(r, fsThrows, cbThrows, cb2Throws) ==
    /\ pc = "sectionReq"
    /\ lastResponse' = ResponseKind(r)
    /\ LET content == Trim(r.text)
           pushed == Append(conversationHistory, ModelTurn(content))
       IN
       IF r.kind = "error"
       THEN \* generateContent rejected
            /\ CatchBlock(r.status, conversationHistory, "error", cb2Throws)
            /\ faults' = LogFault("remote")
            /\ UNCHANGED <<fullScript, scriptFile, sectionEvents, sectionCount, attempts>>
       ELSE IF HasText(r)
       THEN /\ fullScript' = AppendSection(fullScript, content)
            /\ IF fsThrows
               THEN \* appendFileSync threw
                    /\ CatchBlock(-1, pushed, "exception", cb2Throws)
                    /\ faults' = LogFault("fs")
                    /\ UNCHANGED <<scriptFile, sectionEvents, sectionCount, attempts>>
               ELSE /\ scriptFile' = AppendSection(scriptFile, content)
                    /\ sectionEvents' =
                           Append(sectionEvents, [k |-> sectionCount, content |-> content])
                    /\ IF cbThrows
                       THEN \* onSectionGenerated threw
                            /\ CatchBlock(-1, pushed, "exception", cb2Throws)
                            /\ faults' = LogFault("listener")
                            /\ UNCHANGED <<sectionCount, attempts>>
                       ELSE /\ sectionCount' = sectionCount + 1
                            /\ attempts' = 0
                            /\ conversationHistory' = pushed
                            /\ lastWait' = SectionPauseMs
                            /\ lastOutcome' = "received"
                            /\ pc' = "loop"
                            /\ faults' = IF content = <<>> THEN LogFault("blank") ELSE faults
                            /\ UNCHANGED <<lastProgress, lastStatus, thrown>>
       ELSE \* no text in the response
            /\ IF cbThrows
               THEN \* onProgress('Failed to generate ...') threw
                    /\ CatchBlock(-1, conversationHistory, "exception", cb2Throws)
                    /\ faults' = LogFault("listener")
               ELSE /\ lastProgress' = Progress("Failed to generate", sectionCount)
                    /\ conversationHistory' = Pop(conversationHistory)
                    /\ lastOutcome' = "empty"
                    /\ pc' = "loop"
                    /\ faults' = LogFault("remote")
                    /\ UNCHANGED <<lastStatus, lastWait, thrown>>
            /\ UNCHANGED <<fullScript, scriptFile, sectionEvents, sectionCount, attempts>>
    /\ UNCHANGED <<outlineEvents, lastSent, outlineCalls, attemptBase, outlineResponse,
                   result>>

\* a response that records a section and nothing else
Normal(r, fsThrows, cbThrows, cb2Throws) ==
    /\ HasText(r) /\ Trim(r.text) # <<>>
    /\ ~fsThrows /\ ~cbThrows /\ ~cb2Throws

\* an abnormal attempt is within the bounds of the model
FaultAllowed == Len(faults) < MaxFaults /\ sectionCount <= FaultSections

ReceiveSection ==
    /\ OnlyScript
    /\ \E r \in Responses(sectionCount), fsThrows \in BOOLEAN, cbThrows \in BOOLEAN,
          cb2Throws \in BOOLEAN :
           /\ Normal(r, fsThrows, cbThrows, cb2Throws) \/ FaultAllowed
           /\ SectionArrives(r, fsThrows, cbThrows, cb2Throws)

\* the remote service goes on failing (an error, or no text) after the recorded faults
FailingResponses == {r \in Responses(sectionCount) : r.kind = "error" \/ ~HasText(r)}

ServiceKeepsFailing ==
    /\ OnlyScript
    /\ ~FaultAllowed
    /\ \E r \in FailingResponses : SectionArrives(r, FALSE, FALSE, FALSE)

\* lines 153-163: the loop is over; the final message, then return fullScript.trim()
\* (a listener that throws here is caught and the same text is returned)
Finish ==
    /\ OnlyScript
    /\ pc = "loop"
    /\ ~LoopContinues(sectionCount)
    /\ lastProgress' = Progress("Script saved", sectionCount - 1)
    /\ result' = FinalText(fullScript)
    /\ pc' = "done"
    /\ UNCHANGED <<conversationHistory, fullScript, sectionCount, scriptFile,
                   outlineEvents, sectionEvents, lastSent, outlineCalls, attempts,
                   attemptBase, outlineResponse, lastResponse, lastOutcome, lastStatus,
                   lastWait, thrown, faults>>

ScriptNext ==
    \/ RequestOutline
    \/ ReceiveOutline
    \/ RequestSection
    \/ ReceiveSection
    \/ Finish

LimiterIdle ==
    /\ maxRequests = 0 /\ windowMs = 0 /\ requests = <<>> /\ now = 0 /\ admissions = <<>>

RetryIdle ==
    /\ maxRetries = 0 /\ baseDelay = 0 /\ capMs = 0 /\ rpc = "idle" /\ attempt = 0
    /\ invocations = 0 /\ waits = <<>> /\ errors = <<>> /\ resolved = 0
    /\ retryLog = <<>> /\ retryEvents = <<>>
    /\ outcome = [kind |-> "none"]

ChunkIdle ==
    /\ inputContent = <<>> /\ maxChunkSize = 0 /\ cpc = "idle" /\ sentences = <<>>
    /\ chunks = <<>> /\ currentChunk = <<>>

WavIdle ==
    /\ inputFiles = <<>> /\ chunkFiles = <<>> /\ outputFile = <<>> /\ jpc = "idle"

ImageIdle ==
    /\ imageCopy = "none" /\ sectionIndex = 0 /\ ipc = "idle" /\ imagePrompts = <<>>
    /\ promptIndex = 0 /\ iattempt = 0 /\ savedImagePaths = <<>> /\ imageDir = {}
    /\ imageEvents = <<>> /\ imageCalls = <<>> /\ irequests = <<>> /\ inow = 0
    /\ iwaits = 0 /\ ithrown = "none" /\ iresult = <<>> /\ promptOutcomes = <<>>

AudioIdle ==
    /\ apc = "idle" /\ chunkTotal = 0 /\ chunkIndex = 0 /\ aattempt = 0
    /\ streamFiles = <<>> /\ allChunkFiles = <<>> /\ audioDisk = {}
    /\ completeAudio = <<>> /\ audioEvents = <<>> /\ audioCalls = <<>>
    /\ arequests = <<>> /\ anow = 0 /\ awaits = 0 /\ athrown = "none"
    /\ chunkOutcomes = <<>> /\ abandonedAt = <<>> /\ fragmentLog = <<>>
    /\ unlinkFailed = {}

RunsIdle ==
    /\ runKind = <<>> /\ runState = <<>> /\ windows = <<>> /\ touched = <<>>
    /\ attemptCell = <<>> /\ touchedCell = <<>> /\ cnow = 0

OthersIdle == ImageIdle /\ AudioIdle /\ RunsIdle

ScriptStart == ScriptInit /\ LimiterIdle /\ RetryIdle /\ ChunkIdle /\ WavIdle /\ OthersIdle

\* the runs in which at most MaxFaults attempts are abnormal
ScriptSpec == ScriptStart /\ [][ScriptNext]_vars

\* the same runs, continued by a service that never stops failing; the run itself
\* always takes its next step
ScriptLiveNext == ScriptNext \/ ServiceKeepsFailing
ScriptLiveSpec == ScriptStart /\ [][ScriptLiveNext]_vars /\ WF_vars(ScriptLiveNext)

-----------------------------------------------------------------------------
(* RateLimiter *)

\* the "+ 1000" of waitTime, which is also the step of the model's clock
SafetyMarginMs == 1000

\* this.requests.filter((timestamp) => now - timestamp < this.windowMs)
Evict(reqs, t, w) == SelectSeq(reqs, LAMBDA ts : t - ts < w)

\* (mutant) one request too many passes before the limiter waits
AtCapacity_Strict(reqs, limit) == Len(reqs) > limit

\* if (this.requests.length >= this.maxRequests)
AtCapacity(reqs, limit) == Len(reqs) >= limit

\* Math.min(...this.requests)
Oldest(reqs) == CHOOSE m \in {reqs[i] : i \in 1..Len(reqs)} :
                    \A i \in 1..Len(reqs) : m <= reqs[i]

\* this.windowMs - (now - oldestRequest) + 1000
WaitTime(w, t, oldest) == w - (t - oldest) + SafetyMarginMs

\* this.requests.push(now): `now` is the constant read when the call began,
\* also when the call has waited
Recorded(t, resumed) == t

LimiterInit ==
    /\ maxRequests \in 1..MaxLimit
    /\ windowMs \in {n * SafetyMarginMs : n \in 1..MaxWindowSteps}
    /\ requests = <<>>
    /\ now = 0
    /\ admissions = <<>>

OnlyLimiter ==
    UNCHANGED <<scriptVars, retryVars, chunkVars, wavVars, imageVars, audioVars, runsVars>>

LastReturn == IF admissions = <<>> THEN 0 ELSE admissions[Len(admissions)].admitted

\* the caller does something else between two calls
Elapse ==
    /\ OnlyLimiter
    /\ Len(admissions) < MaxCalls
    /\ now - LastReturn < MaxIdleSteps * SafetyMarginMs
    /\ now' = now + SafetyMarginMs
    /\ UNCHANGED <<maxRequests, windowMs, requests, admissions>>

\* one call of waitIfNeeded, from Date.now() to the push, the wait included
WaitIfNeeded ==
    /\ OnlyLimiter
    /\ Len(admissions) < MaxCalls
    /\ LET t == now
           kept == Evict(requests, t, windowMs)
           waitTime == IF AtCapacity(kept, maxRequests)
                       THEN WaitTime(windowMs, t, Oldest(kept))
                       ELSE 0
           resumed == IF waitTime > 0 THEN t + waitTime ELSE t
       IN  /\ now' = resumed
           /\ requests' = Append(kept, Recorded(t, resumed))
           /\ admissions' = Append(admissions, [called |-> t, admitted |-> resumed])
    /\ UNCHANGED <<maxRequests, windowMs>>

LimiterNext == Elapse \/ WaitIfNeeded

LimiterStart ==
    LimiterInit /\ ScriptInit /\ RetryIdle /\ ChunkIdle /\ WavIdle /\ OthersIdle

LimiterSpec == LimiterStart /\ [][LimiterNext]_vars

-----------------------------------------------------------------------------
(* retryWithBackoff *)

\* baseDelay as passed by generateChunkAudio and GenerateImage (and the default)
DefaultBaseDelayMs == 2000
\* Math.min(..., 120000) in GenerateAudio.ts
AudioCapMs == 120000
\* Math.min(..., 60000) in the image module
ImageCapMs == 60000

\* characters of a RetryInfo.retryDelay string: the digits are 0..9
CharS == 10
CharDot == 11

IsDigit(c) == c \in 0..9

Min(a, b) == IF a <= b THEN a ELSE b

RECURSIVE Pow2(_)
Pow2(n) == IF n = 0 THEN 1 ELSE 2 * Pow2(n - 1)

\* the end of the run of digits that starts at position i
RECURSIVE DigitsEnd(_, _)
DigitsEnd(text, i) ==
    IF i < Len(text) /\ IsDigit(text[i + 1]) THEN DigitsEnd(text, i + 1) ELSE i

\* parseInt of the digits text[i..j]
RECURSIVE DigitsValue(_, _, _)
DigitsValue(text, i, j) ==
    IF j < i THEN 0 ELSE 10 * DigitsValue(text, i, j - 1) + text[j]

\* retryDelay.match(/(\d+)s/) at position i
MatchesAt(text, i) ==
    /\ IsDigit(text[i])
    /\ DigitsEnd(text, i) < Len(text)
    /\ text[DigitsEnd(text, i) + 1] = CharS

\* parseInt(delayMatch[1]) of the leftmost match, -1 when there is no match
ParseRetrySeconds(text) ==
    LET starts == {i \in 1..Len(text) : MatchesAt(text, i)} IN
    IF starts = {} THEN -1
    ELSE LET i == CHOOSE m \in starts : \A n \in starts : m <= n
         IN  DigitsValue(text, i, DigitsEnd(text, i))

\* what fn() can reject with: a status, and for a 429 possibly a details array
\* holding a RetryInfo entry with a retryDelay string
OpError(status, info, text) == [status |-> status, retryInfo |-> info, retryDelay |-> text]

OpErrors ==
    {OpError(503, FALSE, <<>>), OpError(400, FALSE, <<>>), OpError(429, FALSE, <<>>),
     OpError(429, TRUE, <<5, CharS>>), OpError(429, TRUE, <<1, CharDot, 5, CharS>>),
     OpError(429, TRUE, <<7>>)}

\* (mutant) the last attempt is followed by a wait too
Retried_OneMore(e, a, retries) == e.status \in {503, 429} /\ a <= retries

\* (mutant) every error is retried, whatever its status
Retried_AnyStatus(e, a, retries) == a < retries

\* status === 503 && attempt < maxRetries, or status === 429 && attempt < maxRetries
Retried(e, a, retries) == e.status \in {503, 429} /\ a < retries

\* (mutant) the exponential delay of a 503 without its cap
RetryDelay_NoCap(e, a, base, cap) ==
    IF e.status = 503
    THEN base * Pow2(a)
    ELSE IF e.retryInfo /\ e.retryDelay # <<>> /\ ParseRetrySeconds(e.retryDelay) >= 0
         THEN ParseRetrySeconds(e.retryDelay) * 1000
         ELSE base * Pow2(a)

\* (mutant) the same delay before every retry
RetryDelay_Flat(e, a, base, cap) == Min(base, cap)

\* the delay before the next attempt
RetryDelay(e, a, base, cap) ==
    IF e.status = 503
    THEN Min(base * Pow2(a), cap)
    ELSE IF e.retryInfo /\ e.retryDelay # <<>> /\ ParseRetrySeconds(e.retryDelay) >= 0
         THEN ParseRetrySeconds(e.retryDelay) * 1000
         ELSE base * Pow2(a)

\* what is thrown when fn() has failed and there is no retry: `throw error`, the
\* error of the failed call itself, also on the last attempt
Rethrown(e, a, retries) == [kind |-> "threw", exhausted |-> FALSE, error |-> e]

\* throw new Error('Max retries exceeded'), after the loop
Exhausted == [kind |-> "threw", exhausted |-> TRUE, error |-> OpError(0, FALSE, <<>>)]

\* console.log(`... (attempt ${attempt + 1}/${maxRetries + 1}). Waiting ...`): the
\* retry is written to the console; retryWithBackoff takes no listener
RetryLogLine(a, retries) == [attempt |-> a + 1, ceiling |-> retries + 1]

\* what fn() can resolve with
OpValues == {1, 2}

\* return await fn()
Returned(v) == [kind |-> "returned", value |-> v]

RetryInit ==
    /\ maxRetries \in 0..MaxRetriesBound
    /\ baseDelay \in {DefaultBaseDelayMs, LargeBaseDelayMs}
    /\ capMs \in {AudioCapMs, ImageCapMs}
    /\ rpc = "ready"
    /\ attempt = 0
    /\ invocations = 0
    /\ waits = <<>>
    /\ errors = <<>>
    /\ resolved = 0
    /\ retryLog = <<>>
    /\ retryEvents = <<>>
    /\ outcome = [kind |-> "none"]

OnlyRetry ==
    UNCHANGED <<scriptVars, limiterVars, chunkVars, wavVars, imageVars, audioVars, runsVars>>

\* return await fn(): the call is made
Invoke ==
    /\ OnlyRetry
    /\ rpc = "ready"
    /\ rpc' = "calling"
    /\ invocations' = invocations + 1
    /\ UNCHANGED <<maxRetries, baseDelay, capMs, attempt, waits, errors, resolved,
                   retryLog, retryEvents, outcome>>

\* fn() resolved: retryWithBackoff returns the value
Resolve ==
    /\ OnlyRetry
    /\ rpc = "calling"
    /\ rpc' = "returned"
    /\ \E v \in OpValues :
        /\ resolved' = v
        /\ outcome' = Returned(v)
    /\ UNCHANGED <<maxRetries, baseDelay, capMs, attempt, invocations, waits, errors,
                   retryLog, retryEvents>>

\* fn() rejected: the catch block, then the next turn of the loop or the throw
Reject ==
    /\ OnlyRetry
    /\ rpc = "calling"
    /\ \E e \in OpErrors :
        /\ errors' = Append(errors, e)
        /\ IF Retried(e, attempt, maxRetries)
           THEN /\ waits' = Append(waits, RetryDelay(e, attempt, baseDelay, capMs))
                /\ retryLog' = Append(retryLog, RetryLogLine(attempt, maxRetries))
                /\ attempt' = attempt + 1
                /\ IF attempt' <= maxRetries
                   THEN rpc' = "ready" /\ outcome' = outcome
                   ELSE rpc' = "threw" /\ outcome' = Exhausted
           ELSE /\ rpc' = "threw"
                /\ outcome' = Rethrown(e, attempt, maxRetries)
                /\ UNCHANGED <<waits, attempt, retryLog>>
    /\ UNCHANGED <<maxRetries, baseDelay, capMs, invocations, resolved, retryEvents>>

RetryNext == Invoke \/ Resolve \/ Reject

RetryStart ==
    RetryInit /\ ScriptInit /\ LimiterIdle /\ ChunkIdle /\ WavIdle /\ OthersIdle

RetrySpec == RetryStart /\ [][RetryNext]_vars

-----------------------------------------------------------------------------
(* splitContentIntoChunks *)

\* the sentence terminators of /(?<=[.!?])\s+/ besides the full stop
CharBang == 12
CharQuery == 13

IsTerminator(c) == c \in {CharDot, CharBang, CharQuery}

\* the characters contents are written with: a space, a newline, a letter, a full stop
ContentChars == {SP, NL, CharS, CharDot}

RECURSIVE TextsUpTo(_)
TextsUpTo(n) ==
    IF n = 0 THEN {<<>>}
    ELSE LET shorter == TextsUpTo(n - 1)
         IN  shorter \cup {Append(t, c) : t \in {u \in shorter : Len(u) = n - 1},
                                          c \in ContentChars}

\* the first position at or after i that holds no whitespace
RECURSIVE SkipSpace(_, _)
SkipSpace(text, i) ==
    IF i <= Len(text) /\ IsSpace(text[i]) THEN SkipSpace(text, i + 1) ELSE i

\* text.split(/(?<=[.!?])\s+/) from position i on, piece being the piece so far:
\* a run of whitespace that follows a terminator ends the piece and is dropped
RECURSIVE SplitFrom(_, _, _)
SplitFrom(text, piece, i) ==
    IF i > Len(text) THEN <<piece>>
    ELSE IF IsSpace(text[i]) /\ i > 1 /\ IsTerminator(text[i - 1])
         THEN <<piece>> \o SplitFrom(text, <<>>, SkipSpace(text, i))
         ELSE SplitFrom(text, Append(piece, text[i]), i + 1)

SplitSentences(text) == SplitFrom(text, <<>>, 1)

\* (currentChunk + sentence).length > maxChunkSize && currentChunk
\* (mutant) a sentence longer than the limit never starts a chunk of its own
Overflows_IfSentenceFits(cur, sentence, max) ==
    Len(cur \o sentence) > max /\ cur # <<>> /\ Len(sentence) <= max

Overflows(cur, sentence, max) == Len(cur \o sentence) > max /\ cur # <<>>

\* (mutant) the joined text is cut at maxChunkSize
NextChunk_Truncate(cur, sentence, max) ==
    IF Overflows(cur, sentence, max) THEN sentence
    ELSE LET joined == IF cur # <<>> THEN cur \o <<SP>> \o sentence ELSE sentence
         IN  SubSeq(joined, 1, Min(Len(joined), max))

\* currentChunk after one turn of the loop
NextChunk(cur, sentence, max) ==
    IF Overflows(cur, sentence, max) THEN sentence
    ELSE IF cur # <<>> THEN cur \o <<SP>> \o sentence ELSE sentence

ChunkInit ==
    /\ inputContent \in TextsUpTo(MaxTextLen)
    /\ maxChunkSize \in 1..MaxChunkSize
    /\ cpc = "start"
    /\ sentences = <<>>
    /\ chunks = <<>>
    /\ currentChunk = <<>>

OnlyChunk ==
    UNCHANGED <<scriptVars, limiterVars, retryVars, wavVars, imageVars, audioVars, runsVars>>

\* const sentences = content.trim().split(...); chunks = []; currentChunk = ''
Split ==
    /\ OnlyChunk
    /\ cpc = "start"
    /\ sentences' = SplitSentences(Trim(inputContent))
    /\ cpc' = "looping"
    /\ UNCHANGED <<inputContent, maxChunkSize, chunks, currentChunk>>

\* one turn of `for (const sentence of sentences)`
TakeSentence ==
    /\ OnlyChunk
    /\ cpc = "looping"
    /\ sentences # <<>>
    /\ LET sentence == Head(sentences) IN
        /\ chunks' = IF Overflows(currentChunk, sentence, maxChunkSize)
                      THEN Append(chunks, Trim(currentChunk))
                      ELSE chunks
        /\ currentChunk' = NextChunk(currentChunk, sentence, maxChunkSize)
    /\ sentences' = Tail(sentences)
    /\ UNCHANGED <<inputContent, maxChunkSize, cpc>>

\* if (currentChunk.trim()) chunks.push(currentChunk.trim()); return chunks
ReturnChunks ==
    /\ OnlyChunk
    /\ cpc = "looping"
    /\ sentences = <<>>
    /\ chunks' = IF Trim(currentChunk) # <<>>
                  THEN Append(chunks, Trim(currentChunk))
                  ELSE chunks
    /\ cpc' = "returned"
    /\ UNCHANGED <<inputContent, maxChunkSize, sentences, currentChunk>>

ChunkNext == Split \/ TakeSentence \/ ReturnChunks

ChunkStart ==
    ChunkInit /\ ScriptInit /\ LimiterIdle /\ RetryIdle /\ WavIdle /\ OthersIdle

ChunkSpec == ChunkStart /\ [][ChunkNext]_vars

-----------------------------------------------------------------------------
(* joinWavFiles, createWavHeader, extractWavFormat, convertToWav *)

\* Buffers are sequences of bytes; offset n of the code is position n + 1.

\* Buffer.alloc(44), fileBuffer.slice(44)
HeaderBytes == 44

\* buffer.write('RIFF', 0), 'WAVE', 'fmt ', 'data': the ASCII codes
TagRIFF == <<82, 73, 70, 70>>
TagWAVE == <<87, 65, 86, 69>>
TagFmt == <<102, 109, 116, 32>>
TagData == <<100, 97, 116, 97>>

\* writeUInt16LE, writeUInt32LE: the bytes written
UInt16LE(v) == <<v % 256, (v \div 256) % 256>>
UInt32LE(v) ==
    <<v % 256, (v \div 256) % 256, (v \div 65536) % 256, (v \div 16777216) % 256>>

\* readUInt16LE(offset), readUInt32LE(offset)
ReadUInt16LE(buf, offset) == buf[offset + 1] + 256 * buf[offset + 2]
ReadUInt32LE(buf, offset) ==
    buf[offset + 1] + 256 * buf[offset + 2] + 65536 * buf[offset + 3]
        + 16777216 * buf[offset + 4]

WavOptions(channels, rate, bits) ==
    [numChannels |-> channels, sampleRate |-> rate, bitsPerSample |-> bits]

\* the 44 bytes createWavHeader writes
CreateWavHeader(dataLength, options) ==
    LET byteRate == (options.sampleRate * options.numChannels * options.bitsPerSample)
                        \div 8
        blockAlign == (options.numChannels * options.bitsPerSample) \div 8
    IN  TagRIFF \o UInt32LE(36 + dataLength) \o TagWAVE \o TagFmt
        \o UInt32LE(16) \o UInt16LE(1) \o UInt16LE(options.numChannels)
        \o UInt32LE(options.sampleRate) \o UInt32LE(byteRate) \o UInt16LE(blockAlign)
        \o UInt16LE(options.bitsPerSample) \o TagData \o UInt32LE(dataLength)

ExtractWavFormat(wavBuffer) ==
    WavOptions(ReadUInt16LE(wavBuffer, 22), ReadUInt32LE(wavBuffer, 24),
               ReadUInt16LE(wavBuffer, 34))

\* convertToWav, from the decoded bytes and the options parseMimeType returned
ConvertToWav(pcm, options) == CreateWavHeader(Len(pcm), options) \o pcm

\* (mutant) the whole file is taken as sample data, header included
AudioData_WithHeader(buf) == buf

\* fileBuffer.slice(44)
AudioData(buf) == SubSeq(buf, HeaderBytes + 1, Len(buf))

\* (mutant) only the sample data is copied
CopyFile_DataOnly(buf) == SubSeq(buf, HeaderBytes + 1, Len(buf))

\* fs.copyFile(filePaths[0], outputPath): the bytes of the destination
CopyFile(buf) == buf

\* Buffer.concat of the elements of a list of buffers
RECURSIVE Concat(_)
Concat(bufs) == IF bufs = <<>> THEN <<>> ELSE Head(bufs) \o Concat(Tail(bufs))

\* the default options of parseMimeType, and those of 'audio/L8;rate=16000'
Formats == {WavOptions(1, 24000, 16), WavOptions(1, 16000, 8)}

SampleBytes == {1, 2}

RECURSIVE DataUpTo(_)
DataUpTo(n) ==
    IF n = 0 THEN {<<>>}
    ELSE LET shorter == DataUpTo(n - 1)
         IN  shorter \cup {Append(d, b) : d \in {u \in shorter : Len(u) = n - 1},
                                          b \in SampleBytes}

\* the files generateChunkAudio saves through convertToWav
Fragments == {ConvertToWav(d, f) : d \in DataUpTo(MaxDataLen), f \in Formats}

WavInit ==
    /\ chunkFiles \in UNION {[1..n -> Fragments] : n \in 0..MaxFragments}
    /\ inputFiles = chunkFiles
    /\ outputFile = <<>>
    /\ jpc = "start"

OnlyWav ==
    UNCHANGED <<scriptVars, limiterVars, retryVars, chunkVars, imageVars, audioVars, runsVars>>

\* if (filePaths.length === 0) return
JoinNothing ==
    /\ OnlyWav
    /\ jpc = "start"
    /\ Len(chunkFiles) = 0
    /\ jpc' = "returned"
    /\ UNCHANGED <<inputFiles, chunkFiles, outputFile>>

\* if (filePaths.length === 1) { await fs.copyFile(filePaths[0], outputPath); return }
JoinOne ==
    /\ OnlyWav
    /\ jpc = "start"
    /\ Len(chunkFiles) = 1
    /\ outputFile' = CopyFile(chunkFiles[1])
    /\ jpc' = "returned"
    /\ UNCHANGED <<inputFiles, chunkFiles>>

\* lines 173-201: the format of the first file, the data of every file, a new header
JoinMany ==
    /\ OnlyWav
    /\ jpc = "start"
    /\ Len(chunkFiles) >= 2
    /\ LET wavOptions == ExtractWavFormat(chunkFiles[1])
           audioDataChunks == [i \in 1..Len(chunkFiles) |-> AudioData(chunkFiles[i])]
           totalDataLength == Len(Concat(audioDataChunks))
           newHeader == CreateWavHeader(totalDataLength, wavOptions)
       IN  outputFile' = newHeader \o Concat(audioDataChunks)
    /\ jpc' = "returned"
    /\ UNCHANGED <<inputFiles, chunkFiles>>

WavNext == JoinNothing \/ JoinOne \/ JoinMany

WavStart ==
    WavInit /\ ScriptInit /\ LimiterIdle /\ RetryIdle /\ ChunkIdle /\ OthersIdle

WavSpec == WavStart /\ [][WavNext]_vars

-----------------------------------------------------------------------------
(* GenerateImagePrompts and GenerateImage: the copy with RateLimiter and          *)
(* retryWithBackoff (src/unnamed/part_003, "limited") and the copy without them   *)
(* (src/src/main/GenerateImage.ts, "plain")                                       *)

\* retryWithBackoff(..., 5, 2000) in the image loop
ImageMaxRetries == 5
\* new RateLimiter(15, 60000)
ImageLimit == 15
ImageWindowMs == 60000
\* setTimeout(resolve, 3000) after the images of a sub-prompt
ImagePauseMs == 3000
\* setTimeout(resolve, 60000) in the catch block, after a 503
ImageOverloadWaitMs == 60000

\* the pieces of a file name: '_', 'section', 'prompt', 'image', '.jpg'
CharUnderscore == 14
WordSection == 15
WordPrompt == 16
WordImage == 17
ExtJpg == 18

\* `${n}` for a non-negative integer: its decimal digits
RECURSIVE Decimal(_)
Decimal(n) == IF n < 10 THEN <<n>> ELSE Decimal(n \div 10) \o <<n % 10>>

\* `prompt_${promptIndex}_image_${imgIndex}.jpg`
PlainFileName(p, i) ==
    <<WordPrompt, CharUnderscore>> \o Decimal(p)
        \o <<CharUnderscore, WordImage, CharUnderscore>> \o Decimal(i) \o <<ExtJpg>>

\* `section_${sectionIndex}_prompt_${promptIndex}_image_${imgIndex}.jpg`
SectionFileName(sec, p, i) ==
    <<WordSection, CharUnderscore>> \o Decimal(sec) \o <<CharUnderscore>>
        \o PlainFileName(p, i)

\* the file name the running copy gives to image i of sub-prompt p
ImageFileName(copy, sec, p, i) ==
    IF copy = "limited" THEN SectionFileName(sec, p, i) ELSE PlainFileName(p, i)

\* generatedText.split('\n') from position i on
RECURSIVE SplitLinesFrom(_, _, _)
SplitLinesFrom(text, piece, i) ==
    IF i > Len(text) THEN <<piece>>
    ELSE IF text[i] = NL THEN <<piece>> \o SplitLinesFrom(text, <<>>, i + 1)
         ELSE SplitLinesFrom(text, Append(piece, text[i]), i + 1)

\* .split('\n').map((prompt) => prompt.trim()).filter((prompt) => prompt.length > 0)
DerivedPrompts(text) ==
    LET lines == SplitLinesFrom(text, <<>>, 1)
        trimmed == [i \in 1..Len(lines) |-> Trim(lines[i])]
    IN  SelectSeq(trimmed, LAMBDA l : Len(l) > 0)

\* derivation texts of n sub-prompts: one per line, and the same with padding
\* and empty lines
RECURSIVE PromptLines(_)
PromptLines(n) ==
    IF n = 0 THEN <<>>
    ELSE IF n = 1 THEN Body(1) ELSE PromptLines(n - 1) \o <<NL>> \o Body(n)

PaddedLines(n) == <<SP>> \o PromptLines(n) \o <<SP, NL, NL>>

DerivationResponses ==
    {TextResponse(PromptLines(n)) : n \in 0..MaxPrompts}
    \cup {TextResponse(PaddedLines(n)) : n \in 0..MaxPrompts}
    \cup {MissingResponse, ErrorResponse(503), ErrorResponse(400)}

\* what one generateImages call can produce: a list of generated images, each with
\* or without imageBytes, or a rejection
ImageResult(valid) == [kind |-> "images", images |-> valid, status |-> 0]
ImageFailure(st) == [kind |-> "error", images |-> <<>>, status |-> st]

GenerationOutcomes ==
    {ImageResult(<<>>), ImageResult(<<TRUE>>), ImageResult(<<FALSE, TRUE>>)}
    \cup {ImageFailure(st) : st \in {503, 429, 400}}

\* the sections image runs are started for
Sections == {1, 11}

\* waitIfNeeded on a limiter with the given requests, called at time t: how long
\* it waits, and the requests it leaves
WaitFor(reqs, t, limit, w) ==
    LET kept == Evict(reqs, t, w)
        waitTime == IF AtCapacity(kept, limit) THEN WaitTime(w, t, Oldest(kept)) ELSE 0
    IN  IF waitTime > 0 THEN waitTime ELSE 0

PushedWindow(reqs, t, limit, w) ==
    Append(Evict(reqs, t, w), Recorded(t, t + WaitFor(reqs, t, limit, w)))

ImageEvent(current, total, msg) == [current |-> current, total |-> total, msg |-> msg]
RemoteCall(phase, unit, att) == [phase |-> phase, unit |-> unit, attempt |-> att]
\* how a unit ended and, when files were saved, the result the service gave
UnitOutcome(unit, how, given) == [unit |-> unit, outcome |-> how, given |-> given]

\* what an earlier run for section sec left in the output directory when it saved
\* the first image of its first sub-prompt
EarlierRun(copy, sec) == {[name |-> ImageFileName(copy, sec, 0, 0), by |-> <<sec, 0, 0>>]}

ImageInit ==
    /\ imageCopy \in {"limited", "plain"}
    /\ sectionIndex \in Sections
    /\ ipc = "start"
    /\ imagePrompts = <<>>
    /\ promptIndex = 0
    /\ iattempt = 0
    /\ savedImagePaths = <<>>
    /\ imageDir \in {{}} \cup {EarlierRun(imageCopy, sec) : sec \in Sections \ {sectionIndex}}
    /\ imageEvents = <<>>
    /\ imageCalls = <<>>
    /\ irequests = <<>>
    /\ inow = 0
    /\ iwaits = 0
    /\ ithrown = "none"
    /\ iresult = <<>>
    /\ promptOutcomes = <<>>

OnlyImage ==
    UNCHANGED <<scriptVars, limiterVars, retryVars, chunkVars, wavVars, audioVars, runsVars>>

\* the outer catch of GenerateImage: console.error, throw error
FailImage(cause) ==
    /\ ipc' = "failed"
    /\ ithrown' = cause

\* GenerateImagePrompts, then lines 151-169: the limiter, the directory, the first
\* progress callback
DerivePrompts ==
    /\ OnlyImage
    /\ ipc = "start"
    /\ \E r \in DerivationResponses, cbThrows \in BOOLEAN :
        /\ imageCalls' = Append(imageCalls, RemoteCall("derive", -1, 0))
        /\ IF r.kind = "error"
           THEN /\ cbThrows = FALSE
                /\ FailImage(IF r.status = 503 THEN "remote 503" ELSE "remote")
                /\ UNCHANGED <<imagePrompts, imageEvents>>
           ELSE IF ~HasText(r)
           THEN /\ cbThrows = FALSE
                /\ FailImage("No image prompts generated.")
                /\ UNCHANGED <<imagePrompts, imageEvents>>
           ELSE /\ imagePrompts' = DerivedPrompts(r.text)
                /\ imageEvents' =
                       Append(imageEvents, ImageEvent(0, Len(imagePrompts'), "Starting"))
                /\ IF cbThrows
                   THEN FailImage("listener")
                   ELSE ipc' = "loop" /\ ithrown' = ithrown
    /\ UNCHANGED <<imageCopy, sectionIndex, promptIndex, iattempt, savedImagePaths,
                   imageDir, irequests, inow, iwaits, iresult, promptOutcomes>>

\* the head of one turn of the loop: the progress callback, then, in the limited
\* copy, rateLimiter.waitIfNeeded()
BeginPrompt ==
    /\ OnlyImage
    /\ ipc = "loop"
    /\ promptIndex < Len(imagePrompts)
    /\ imageEvents' = Append(imageEvents,
                              ImageEvent(promptIndex, Len(imagePrompts), "Generating"))
    /\ \E cbThrows \in BOOLEAN :
        IF cbThrows
        THEN /\ FailImage("listener")
             /\ UNCHANGED <<imageCalls, irequests, inow, iattempt>>
        ELSE /\ ipc' = "calling"
             /\ ithrown' = ithrown
             /\ iattempt' = 0
             /\ IF imageCopy = "limited"
                THEN /\ imageCalls' =
                            Append(imageCalls, RemoteCall("admit", promptIndex, 0))
                     /\ irequests' =
                            PushedWindow(irequests, inow, ImageLimit, ImageWindowMs)
                     /\ inow' = inow + WaitFor(irequests, inow, ImageLimit, ImageWindowMs)
                ELSE UNCHANGED <<imageCalls, irequests, inow>>
    /\ UNCHANGED <<imageCopy, sectionIndex, imagePrompts, promptIndex, savedImagePaths,
                   imageDir, iwaits, iresult, promptOutcomes>>

\* the images of one result that carry imageBytes: their indices, in order
ValidIndices(images) ==
    SelectSeq([i \in 1..Len(images) |-> i - 1], LAMBDA i : images[i + 1])

\* (mutant) a sub-prompt whose generation or write fails ends the run
AfterPrompt_Rethrown(how) == IF how \in {"error", "fs"} THEN "failed" ELSE "loop"

\* where the run stands after a turn of the loop: the catch block of the loop
\* body logs and waits, it does not rethrow, so every outcome goes on with
\* the loop
AfterPrompt(how) == "loop"

\* the end of one turn of the loop: the next sub-prompt
NextPrompt(how, given, pause) ==
    /\ promptOutcomes' = Append(promptOutcomes, UnitOutcome(promptIndex, how, given))
    /\ promptIndex' = promptIndex + 1
    /\ inow' = inow + pause
    /\ ipc' = AfterPrompt(how)
    /\ iattempt' = 0

\* one generateImages call and what follows it: a backoff wait and another call
\* (limited copy), the files of the result, or the catch block of the loop
InvokeGeneration ==
    /\ OnlyImage
    /\ ipc = "calling"
    /\ imageCalls' = Append(imageCalls, RemoteCall("generate", promptIndex, iattempt))
    /\ \E o \in GenerationOutcomes, fsThrows \in BOOLEAN :
        LET e == OpError(o.status, FALSE, <<>>)
            retried == /\ imageCopy = "limited"
                       /\ o.kind = "error"
                       /\ Retried(e, iattempt, ImageMaxRetries)
            valid == ValidIndices(o.images)
            names == [k \in 1..Len(valid) |->
                         ImageFileName(imageCopy, sectionIndex, promptIndex, valid[k])]
            pause == IF imageCopy = "limited" THEN ImagePauseMs ELSE 0
        IN  IF retried
            THEN /\ fsThrows = FALSE
                 /\ iwaits < MaxRetryWaits
                 /\ promptIndex < RetryingUnits
                 /\ iwaits' = iwaits + 1
                 /\ inow' = inow + RetryDelay(e, iattempt, DefaultBaseDelayMs, ImageCapMs)
                 /\ iattempt' = iattempt + 1
                 /\ UNCHANGED <<ipc, promptIndex, savedImagePaths, imageDir,
                                promptOutcomes>>
            ELSE IF o.kind = "error"
            THEN /\ fsThrows = FALSE
                 /\ NextPrompt("error", <<>>,
                               IF imageCopy = "limited" /\ o.status = 503
                               THEN ImageOverloadWaitMs ELSE 0)
                 /\ UNCHANGED <<iwaits, savedImagePaths, imageDir>>
            ELSE IF Len(o.images) = 0
            THEN /\ fsThrows = FALSE
                 /\ NextPrompt("none", <<>>, 0)
                 /\ UNCHANGED <<iwaits, savedImagePaths, imageDir>>
            ELSE IF fsThrows
            THEN /\ NextPrompt("fs", <<>>, 0)
                 /\ UNCHANGED <<iwaits, savedImagePaths, imageDir>>
            ELSE /\ savedImagePaths' = savedImagePaths \o names
                 /\ imageDir' = imageDir \cup
                        {[name |-> names[k],
                          by |-> <<sectionIndex, promptIndex, valid[k]>>] :
                             k \in 1..Len(names)}
                 /\ NextPrompt("saved", o.images, pause)
                 /\ UNCHANGED iwaits
    /\ UNCHANGED <<imageCopy, sectionIndex, imagePrompts, imageEvents, irequests,
                   ithrown, iresult>>

\* after the loop: the error of a run with no image, or the last callback and the
\* return
FinishImages ==
    /\ OnlyImage
    /\ ipc = "loop"
    /\ promptIndex >= Len(imagePrompts)
    /\ \E cbThrows \in BOOLEAN :
        IF Len(savedImagePaths) = 0
        THEN /\ cbThrows = FALSE
             /\ FailImage("No images were successfully generated.")
             /\ UNCHANGED <<imageEvents, iresult>>
        ELSE /\ imageEvents' = Append(imageEvents,
                     ImageEvent(Len(imagePrompts), Len(imagePrompts), "completed"))
             /\ IF cbThrows
                THEN FailImage("listener") /\ iresult' = iresult
                ELSE ipc' = "returned" /\ ithrown' = ithrown
                     /\ iresult' = savedImagePaths
    /\ UNCHANGED <<imageCopy, sectionIndex, imagePrompts, promptIndex, iattempt,
                   savedImagePaths, imageDir, imageCalls, irequests, inow, iwaits,
                   promptOutcomes>>

ImageNext == DerivePrompts \/ BeginPrompt \/ InvokeGeneration \/ FinishImages

ImageStart ==
    /\ ImageInit /\ ScriptInit /\ LimiterIdle /\ RetryIdle /\ ChunkIdle /\ WavIdle
    /\ AudioIdle /\ RunsIdle

ImageSpec == ImageStart /\ [][ImageNext]_vars

-----------------------------------------------------------------------------
(* GenerateAudio and generateChunkAudio (src/src/main/GenerateAudio.ts) *)

\* retryWithBackoff(..., 5, 2000) and new RateLimiter(10, 60000)
AudioMaxRetries == 5
AudioLimit == 10
AudioWindowMs == 60000
\* setTimeout(resolve, 3000) after the stream of a chunk
AudioPauseMs == 3000

\* the chunks splitContentIntoChunks may return for the content of a run
MaxAudioChunks == 3
\* the inlineData parts of one stream
MaxParts == 2
\* the files a run saves
MaxAudioFiles == 3
\* the unlink calls of a run that fail
MaxUnlinkFaults == 1

\* a mime type of inlineData: the extension getFileExtension finds for it ("" for
\* null), the bits of its L<bits> format and its rate parameter (0 when absent)
Mime(ext, bits, rate) == [ext |-> ext, bits |-> bits, rate |-> rate]

\* 'audio/L16;rate=24000', 'audio/L16' and 'audio/wav'
PcmMime == Mime("", 16, 24000)
BareMime == Mime("", 16, 0)
WavMime == Mime("wav", 0, 0)

GetFileExtension(mime) == mime.ext

\* parseMimeType: one channel, 24000 Hz, 16 bits unless the type says otherwise
ParseMimeType(mime) ==
    WavOptions(1, IF mime.rate # 0 THEN mime.rate ELSE 24000,
               IF mime.bits # 0 THEN mime.bits ELSE 16)

\* the buffer generateChunkAudio saves for one inlineData part
SavedBuffer(mime, data) ==
    IF GetFileExtension(mime) = "" THEN ConvertToWav(data, ParseMimeType(mime)) ELSE data

InlinePart(mime, data) == [kind |-> "inline", mime |-> mime, data |-> data]
\* a part with text only, and a part without candidates
TextPart == [kind |-> "text", mime |-> BareMime, data |-> <<>>]
EmptyPart == [kind |-> "empty", mime |-> BareMime, data |-> <<>>]

StreamParts ==
    {InlinePart(PcmMime, <<1>>), InlinePart(BareMime, <<2>>),
     InlinePart(WavMime, ConvertToWav(<<1>>, ParseMimeType(PcmMime))),
     TextPart, EmptyPart}

\* the samples the service sent in one inlineData part: the data itself, or the
\* data after its header when it came as a WAV file
SamplesSent(part) ==
    IF GetFileExtension(part.mime) = "" THEN part.data
    ELSE SubSeq(part.data, HeaderBytes + 1, Len(part.data))

\* (mutant) the files of a chunk are put before those of the earlier chunks
PushAll_Front(all, files) == files \o all

\* allChunkFiles.push(...chunkFiles)
PushAll(all, files) == all \o files

\* the words CHUNK and .wav of a fragment's name
WordChunk == 19
ExtWav == 20

\* `SECTION_${sectionIndex}_CHUNK_${chunkIndex}_${fileIndex}` with section 0, and
\* the extension
ChunkFileName(chunk, index) ==
    <<WordSection, CharUnderscore>> \o Decimal(0)
        \o <<CharUnderscore, WordChunk, CharUnderscore>> \o Decimal(chunk)
        \o <<CharUnderscore>> \o Decimal(index) \o <<ExtWav>>

\* the bytes joinWavFiles writes for a non-empty list of files
JoinedFile(files) ==
    IF Len(files) = 1
    THEN CopyFile(files[1])
    ELSE LET audioDataChunks == [i \in 1..Len(files) |-> AudioData(files[i])]
         IN  CreateWavHeader(Len(Concat(audioDataChunks)), ExtractWavFormat(files[1]))
             \o Concat(audioDataChunks)

\* the bytes on disk under a name
Stored(disk, name) == (CHOOSE f \in disk : f.name = name).bytes

AudioInit ==
    /\ apc = "start"
    /\ chunkTotal \in 0..MaxAudioChunks
    /\ chunkIndex = 0
    /\ aattempt = 0
    /\ streamFiles = <<>>
    /\ allChunkFiles = <<>>
    /\ audioDisk = {}
    /\ completeAudio = <<>>
    /\ audioEvents = <<>>
    /\ audioCalls = <<>>
    /\ arequests = <<>>
    /\ anow = 0
    /\ awaits = 0
    /\ athrown = "none"
    /\ chunkOutcomes = <<>>
    /\ abandonedAt = <<>>
    /\ fragmentLog = <<>>
    /\ unlinkFailed = {}

OnlyAudio ==
    UNCHANGED <<scriptVars, limiterVars, retryVars, chunkVars, wavVars, imageVars, runsVars>>

\* GenerateAudio takes no signal and reads no flag: no step of the run looks at
\* whether its caller still waits
CallerUnobserved == UNCHANGED abandonedAt

\* the outer catch of GenerateAudio: onProgress('Error: ...'), throw error; when the
\* callback throws, its exception is what leaves the function
FailAudio(events, cause, cbThrows) ==
    /\ audioEvents' = Append(events, "Error")
    /\ apc' = "failed"
    /\ athrown' = IF cbThrows THEN "listener" ELSE cause

\* lines 402-411: the first two progress callbacks, the limiter, the chunks
StartAudio ==
    /\ OnlyAudio
    /\ CallerUnobserved
    /\ UNCHANGED <<fragmentLog, unlinkFailed>>
    /\ apc = "start"
    /\ \E thrownAt \in 0..2, catchThrows \in BOOLEAN :
        IF thrownAt = 0
        THEN /\ catchThrows = FALSE
             /\ audioEvents' = audioEvents \o <<"Starting", "Split">>
             /\ apc' = "loop"
             /\ athrown' = athrown
        ELSE FailAudio(audioEvents \o SubSeq(<<"Starting", "Split">>, 1, thrownAt),
                       "listener", catchThrows)
    /\ UNCHANGED <<chunkTotal, chunkIndex, aattempt, streamFiles, allChunkFiles, audioDisk,
                   completeAudio, audioCalls, arequests, anow, awaits, chunkOutcomes>>

\* lines 415-418 and 343: the callbacks of a chunk, then the admission of its
\* request by the limiter of the run
BeginChunk ==
    /\ OnlyAudio
    /\ CallerUnobserved
    /\ UNCHANGED <<fragmentLog, unlinkFailed>>
    /\ apc = "loop"
    /\ chunkIndex < chunkTotal
    /\ \E thrownAt \in 0..2, catchThrows \in BOOLEAN :
        IF thrownAt = 0
        THEN /\ catchThrows = FALSE
             /\ audioEvents' = audioEvents \o <<"Generating", "ChunkGenerated">>
             /\ audioCalls' = Append(audioCalls, RemoteCall("admit", chunkIndex, 0))
             /\ arequests' = PushedWindow(arequests, anow, AudioLimit, AudioWindowMs)
             /\ anow' = anow + WaitFor(arequests, anow, AudioLimit, AudioWindowMs)
             /\ streamFiles' = <<>>
             /\ aattempt' = 0
             /\ apc' = "calling"
             /\ athrown' = athrown
        ELSE /\ FailAudio(audioEvents
                            \o SubSeq(<<"Generating", "ChunkGenerated">>, 1, thrownAt),
                          "listener", catchThrows)
             /\ UNCHANGED <<audioCalls, arequests, anow, streamFiles, aattempt>>
    /\ UNCHANGED <<chunkTotal, chunkIndex, allChunkFiles, audioDisk, completeAudio,
                   awaits, chunkOutcomes>>

\* the catch of the loop body: console.error, onProgress('Warning: ...'), and the
\* loop goes on unless the callback threw
ChunkFailed(how, cbThrows, catchThrows) ==
    /\ chunkOutcomes' = Append(chunkOutcomes, UnitOutcome(chunkIndex, how, streamFiles))
    /\ IF cbThrows
       THEN /\ FailAudio(Append(audioEvents, "Warning"), "listener", catchThrows)
            /\ UNCHANGED chunkIndex
       ELSE /\ catchThrows = FALSE
            /\ audioEvents' = Append(audioEvents, "Warning")
            /\ chunkIndex' = chunkIndex + 1
            /\ apc' = "loop"
            /\ athrown' = athrown

\* (mutant) every attempt goes through waitIfNeeded
WindowAfterRetry_Readmitted(reqs, t) == PushedWindow(reqs, t, AudioLimit, AudioWindowMs)

\* the limiter's window after a retry: waitIfNeeded (line 343) is outside the function
\* handed to retryWithBackoff (346-356), so another attempt leaves the window alone
WindowAfterRetry(reqs, t) == reqs

\* one generateContentStream call under retryWithBackoff: a wait and another
\* call, the stream, or the error that ends the chunk
InvokeStream ==
    /\ OnlyAudio
    /\ CallerUnobserved
    /\ UNCHANGED <<fragmentLog, unlinkFailed>>
    /\ apc = "calling"
    /\ audioCalls' = Append(audioCalls, RemoteCall("stream", chunkIndex, aattempt))
    /\ \E st \in {0, 503, 429, 400}, cbThrows \in BOOLEAN, catchThrows \in BOOLEAN :
        LET e == OpError(st, FALSE, <<>>)
        IN  IF st = 0
            THEN /\ cbThrows = FALSE /\ catchThrows = FALSE
                 /\ apc' = "streaming"
                 /\ UNCHANGED <<aattempt, anow, awaits, chunkIndex, audioEvents, athrown,
                                chunkOutcomes, arequests>>
            ELSE IF Retried(e, aattempt, AudioMaxRetries)
            THEN /\ cbThrows = FALSE /\ catchThrows = FALSE
                 /\ awaits < MaxRetryWaits
                 /\ chunkIndex < RetryingUnits
                 /\ awaits' = awaits + 1
                 /\ anow' = anow + RetryDelay(e, aattempt, DefaultBaseDelayMs, AudioCapMs)
                 /\ aattempt' = aattempt + 1
                 /\ arequests' = WindowAfterRetry(arequests, anow')
                 /\ UNCHANGED <<apc, chunkIndex, audioEvents, athrown, chunkOutcomes>>
            ELSE /\ ChunkFailed("error", cbThrows, catchThrows)
                 /\ UNCHANGED <<aattempt, anow, awaits, arequests>>
    /\ UNCHANGED <<chunkTotal, streamFiles, allChunkFiles, audioDisk, completeAudio>>

\* one turn of `for await (const chunk of response)`: a part is skipped or saved,
\* the stream or the write fails, or the stream ends and the files of the chunk
\* join those of the run
StreamPart ==
    /\ OnlyAudio
    /\ CallerUnobserved
    /\ UNCHANGED unlinkFailed
    /\ apc = "streaming"
    /\ \E what \in {"part", "end", "streamError", "fsError"}, part \in StreamParts,
          cbThrows \in BOOLEAN, catchThrows \in BOOLEAN :
        CASE what = "part" /\ part.kind = "inline" ->
                 /\ cbThrows = FALSE /\ catchThrows = FALSE
                 /\ Len(streamFiles) < MaxParts
                 /\ Cardinality(audioDisk) < MaxAudioFiles
                 /\ LET name == ChunkFileName(chunkIndex, Len(streamFiles))
                    IN  /\ audioDisk' = {f \in audioDisk : f.name # name} \cup
                               {[name |-> name, bytes |-> SavedBuffer(part.mime, part.data)]}
                        /\ streamFiles' = Append(streamFiles, name)
                        /\ fragmentLog' = Append(fragmentLog,
                               [chunk |-> chunkIndex, name |-> name,
                                samples |-> SamplesSent(part)])
                 /\ UNCHANGED <<apc, chunkIndex, allChunkFiles, anow, audioEvents, athrown,
                                chunkOutcomes>>
          [] what = "part" /\ part.kind # "inline" ->
                 /\ cbThrows = FALSE /\ catchThrows = FALSE
                 /\ UNCHANGED <<apc, chunkIndex, streamFiles, allChunkFiles, audioDisk, anow,
                                audioEvents, athrown, chunkOutcomes, fragmentLog>>
          [] what = "end" ->
                 /\ cbThrows = FALSE /\ catchThrows = FALSE
                 /\ part = TextPart
                 /\ anow' = anow + AudioPauseMs
                 /\ allChunkFiles' = PushAll(allChunkFiles, streamFiles)
                 /\ chunkOutcomes' =
                        Append(chunkOutcomes, UnitOutcome(chunkIndex, "done", streamFiles))
                 /\ chunkIndex' = chunkIndex + 1
                 /\ apc' = "loop"
                 /\ UNCHANGED <<streamFiles, audioDisk, audioEvents, athrown, fragmentLog>>
          [] what \in {"streamError", "fsError"} ->
                 /\ part = TextPart
                 /\ what = "fsError" => Len(streamFiles) < MaxParts
                 /\ ChunkFailed(what, cbThrows, catchThrows)
                 /\ UNCHANGED <<streamFiles, allChunkFiles, audioDisk, anow, fragmentLog>>
    /\ UNCHANGED <<chunkTotal, aattempt, completeAudio, audioCalls, arequests, awaits>>

\* (mutant) the clean-up stops at the first unlink that fails
Remaining_StopAtFirst(list, failed) ==
    {list[i] : i \in {k \in 1..Len(list) : \E j \in 1..k : list[j] \in failed}}

\* the files of the list still on disk after the clean-up loop: each unlink is in a
\* try of its own, so those whose unlink failed and no other
Remaining(list, failed) ==
    {list[i] : i \in {k \in 1..Len(list) : list[k] \in failed}}

\* lines 444-463: the join, onSectionComplete, the clean-up (each unlink may fail
\* and is caught) and the last progress callback; or the error of a run with no
\* chunk file
FinishAudio ==
    /\ OnlyAudio
    /\ CallerUnobserved
    /\ UNCHANGED fragmentLog
    /\ apc = "loop"
    /\ chunkIndex >= chunkTotal
    /\ \E joinThrows \in BOOLEAN, thrownAt \in 0..2, catchThrows \in BOOLEAN,
          kept \in {k \in SUBSET {allChunkFiles[i] : i \in 1..Len(allChunkFiles)} :
                       Cardinality(k) <= MaxUnlinkFaults} :
        LET files == [i \in 1..Len(allChunkFiles) |-> Stored(audioDisk, allChunkFiles[i])]
            listed == {allChunkFiles[i] : i \in 1..Len(allChunkFiles)}
        IN  IF Len(allChunkFiles) = 0
            THEN /\ joinThrows = FALSE /\ thrownAt = 0 /\ kept = {}
                 /\ FailAudio(audioEvents, "No audio chunks were successfully generated.",
                              catchThrows)
                 /\ UNCHANGED <<completeAudio, audioDisk, unlinkFailed>>
            ELSE IF joinThrows
            THEN /\ thrownAt = 0 /\ kept = {}
                 /\ FailAudio(audioEvents, "join", catchThrows)
                 /\ UNCHANGED <<completeAudio, audioDisk, unlinkFailed>>
            ELSE /\ completeAudio' = JoinedFile(files)
                 /\ IF thrownAt = 1
                    THEN /\ kept = {}
                         /\ FailAudio(Append(audioEvents, "SectionComplete"), "listener",
                                      catchThrows)
                         /\ UNCHANGED <<audioDisk, unlinkFailed>>
                    ELSE /\ audioDisk' =
                                {f \in audioDisk :
                                    f.name \notin listed \ Remaining(allChunkFiles, kept)}
                         /\ unlinkFailed' = kept
                         /\ IF thrownAt = 2
                            THEN FailAudio(audioEvents \o <<"SectionComplete", "completed">>,
                                           "listener", catchThrows)
                            ELSE /\ catchThrows = FALSE
                                 /\ audioEvents' =
                                        audioEvents \o <<"SectionComplete", "completed">>
                                 /\ apc' = "returned"
                                 /\ athrown' = athrown
    /\ UNCHANGED <<chunkTotal, chunkIndex, aattempt, streamFiles, allChunkFiles, audioCalls,
                   arequests, anow, awaits, chunkOutcomes>>

AudioNext == StartAudio \/ BeginChunk \/ InvokeStream \/ StreamPart \/ FinishAudio

AudioStart ==
    /\ AudioInit /\ ScriptInit /\ LimiterIdle /\ RetryIdle /\ ChunkIdle /\ WavIdle
    /\ ImageIdle /\ RunsIdle

AudioSpec == AudioStart /\ [][AudioNext]_vars

\* the generateContentStream calls in a log of calls
StreamCalls(calls) == SelectSeq(calls, LAMBDA c : c.phase = "stream")

\* the renderer that invoked 'generate-audio' stops waiting for the run while the
\* run is in a backoff delay, a remote call or a stream: nothing in the main
\* process is told
Abandon ==
    /\ OnlyAudio
    /\ apc \in {"calling", "streaming"}
    /\ abandonedAt = <<>>
    /\ abandonedAt' = <<Len(StreamCalls(audioCalls)), Len(audioEvents)>>
    /\ UNCHANGED <<apc, chunkTotal, chunkIndex, aattempt, streamFiles, allChunkFiles,
                   audioDisk, completeAudio, audioEvents, audioCalls, arequests, anow,
                   awaits, athrown, chunkOutcomes, fragmentLog, unlinkFailed>>

AbandonedNext ==
    \/ StartAudio \/ BeginChunk \/ InvokeStream \/ StreamPart \/ FinishAudio
    \/ Abandon

\* the chunks of the runs whose caller may give up
AbandonedChunks == 2

AbandonedStart == AudioStart /\ chunkTotal <= AbandonedChunks

\* the audio runs with a caller that may give up
AbandonedSpec == AbandonedStart /\ [][AbandonedNext]_vars

-----------------------------------------------------------------------------
(* two runs at once: GenerateAudio and GenerateImage started without awaiting one
   another, each step of one interleaved with the steps of the other *)

Runs == {1, 2}

\* the chunks or sub-prompts of each run
MaxUnits == 1
\* the retries of one retryWithBackoff activation
MaxRunRetries == 1
\* the seconds that pass during the runs
MaxTicks == 1

LimitOf(kind) == IF kind = "audio" THEN AudioLimit ELSE ImageLimit
WindowOf(kind) == IF kind = "audio" THEN AudioWindowMs ELSE ImageWindowMs
RetriesOf(kind) == IF kind = "audio" THEN AudioMaxRetries ELSE ImageMaxRetries

\* (mutant) one RateLimiter for the module, constructed once
NewLimiter_Shared(objects) == 1

\* `const rateLimiter = new RateLimiter(...)` in the body of the run: an object no
\* earlier construction returned
NewLimiter(objects) == Len(objects) + 1

\* `for (let attempt = 0; ...)` in retryWithBackoff: a variable of the activation
NewCell(cells) == Len(cells) + 1

RunState(at, unit, limiter, cell, done) ==
    [at |-> at, unit |-> unit, limiter |-> limiter, cell |-> cell, done |-> done]

RunsInit ==
    /\ runKind \in {<<"audio", "audio">>, <<"audio", "image">>}
    /\ runState = [r \in Runs |-> RunState("start", 0, 0, 0, 0)]
    /\ windows = <<>>
    /\ touched = <<>>
    /\ attemptCell = <<>>
    /\ touchedCell = <<>>
    /\ cnow = 0

OnlyRuns ==
    UNCHANGED <<scriptVars, limiterVars, retryVars, chunkVars, wavVars, imageVars, audioVars>>

\* the run constructs its RateLimiter
StartRun(r) ==
    /\ OnlyRuns
    /\ runState[r].at = "start"
    /\ LET id == NewLimiter(windows)
       IN  /\ windows' = IF id > Len(windows) THEN Append(windows, <<>>) ELSE windows
           /\ touched' = IF id > Len(touched) THEN Append(touched, <<>>) ELSE touched
           /\ runState' = [runState EXCEPT ![r] = RunState("unit", 0, id, 0, 0)]
    /\ UNCHANGED <<runKind, attemptCell, touchedCell, cnow>>

\* rateLimiter.waitIfNeeded() for the next unit, then the entry into
\* retryWithBackoff with attempt = 0
Admit(r) ==
    /\ OnlyRuns
    /\ runState[r].at = "unit"
    /\ runState[r].unit < MaxUnits
    /\ LET id == runState[r].limiter
           cell == NewCell(attemptCell)
           wait == WaitFor(windows[id], cnow, LimitOf(runKind[r]), WindowOf(runKind[r]))
       IN  /\ windows' = [windows EXCEPT ![id] =
                   PushedWindow(windows[id], cnow, LimitOf(runKind[r]), WindowOf(runKind[r]))]
           /\ touched' = [touched EXCEPT ![id] = Append(touched[id], r)]
           /\ cnow' = cnow + wait
           /\ attemptCell' = Append(attemptCell, 0)
           /\ touchedCell' = Append(touchedCell, {r})
           /\ runState' = [runState EXCEPT ![r].at = "calling", ![r].cell = cell]
    /\ UNCHANGED runKind

\* the remote call is rejected: another attempt, or the unit is given up
CallFails(r) ==
    /\ OnlyRuns
    /\ runState[r].at = "calling"
    /\ \E st \in {503, 400} :
        LET cell == runState[r].cell
            e == OpError(st, FALSE, <<>>)
        IN  /\ touchedCell' = [touchedCell EXCEPT ![cell] = touchedCell[cell] \cup {r}]
            /\ IF Retried(e, attemptCell[cell], RetriesOf(runKind[r]))
                  /\ attemptCell[cell] < MaxRunRetries
               THEN /\ attemptCell' = [attemptCell EXCEPT ![cell] = attemptCell[cell] + 1]
                    /\ UNCHANGED runState
               ELSE /\ runState' = [runState EXCEPT ![r].at = "unit",
                                                    ![r].unit = runState[r].unit + 1]
                    /\ UNCHANGED attemptCell
    /\ UNCHANGED <<runKind, windows, touched, cnow>>

\* the remote call returns: the next unit
CallSucceeds(r) ==
    /\ OnlyRuns
    /\ runState[r].at = "calling"
    /\ runState' = [runState EXCEPT ![r].at = "unit", ![r].unit = runState[r].unit + 1,
                                     ![r].done = runState[r].done + 1]
    /\ UNCHANGED <<runKind, windows, touched, attemptCell, touchedCell, cnow>>

\* a second passes
Tick ==
    /\ OnlyRuns
    /\ cnow < MaxTicks * 1000
    /\ cnow' = cnow + 1000
    /\ UNCHANGED <<runKind, runState, windows, touched, attemptCell, touchedCell>>

StartSome == \E r \in Runs : StartRun(r)
AdmitSome == \E r \in Runs : Admit(r)
FailSome == \E r \in Runs : CallFails(r)
SucceedSome == \E r \in Runs : CallSucceeds(r)

RunsNext == StartSome \/ AdmitSome \/ FailSome \/ SucceedSome \/ Tick

RunsStart ==
    /\ RunsInit /\ ScriptInit /\ LimiterIdle /\ RetryIdle /\ ChunkIdle /\ WavIdle
    /\ ImageIdle /\ AudioIdle

RunsSpec == RunsStart /\ [][RunsNext]_vars

-----------------------------------------------------------------------------
(* GenerateScript: properties *)

FailedAttempt == pc = "loop" /\ lastOutcome \in {"empty", "error", "exception"}

\* C1: after the handling of any failed attempt for section k (no text, a remote
\* error, or an exception raised after the response arrived) the conversation
\* history is exactly the history the attempt began with.
C1_HistoryRolledBack == FailedAttempt => conversationHistory = attemptBase

EventIndices == [i \in 1..Len(sectionEvents) |-> sectionEvents[i].k]

\* C2: a run that completes has emitted exactly SectionTotal section events, with
\* the indices 1, 2, ..., SectionTotal in this order.
C2_SectionEventsInOrder ==
    pc = "done" => EventIndices = [i \in 1..SectionTotal |-> i]

\* the section texts of a service that always answers, joined by three newlines
RECURSIVE JoinedBodies(_)
JoinedBodies(n) ==
    IF n = 1 THEN Body(1) ELSE JoinedBodies(n - 1) \o <<NL, NL, NL>> \o Body(n)

\* C3: when every call succeeds with content, the returned text is the 15 section
\* contents in index order joined by three newlines, nothing before or after.
C3_ReturnsJoinedSections ==
    (pc = "done" /\ faults = <<>>) => result = JoinedBodies(SectionTotal)

C3_Witness ==
    /\ pc = "done" /\ faults = <<>>
    /\ Len(result) = SectionTotal + 3 * (SectionTotal - 1)

ThirdSectionFailedOnce == faults = <<[k |-> 3, class |-> "remote"]>>

\* C4: when the service fails the 3rd section request once and otherwise succeeds,
\* the history at the end of the run has 2 * (SectionTotal + 1) = 32 turns.
C4_NoLeakedTurn ==
    (pc = "done" /\ ThirdSectionFailedOnce) =>
        Len(conversationHistory) = 2 * (SectionTotal + 1)

C4_Witness == pc = "done" /\ ThirdSectionFailedOnce /\ Len(sectionEvents) = SectionTotal

\* C5: the attempts made for one section are bounded: also when the service keeps
\* failing, the run eventually ends, completed or failed.
C5_RunEnds == <>(pc \in {"done", "failed"})

NonRetryableError ==
    lastResponse = "error" /\ lastOutcome = "error" /\ lastStatus \notin {503, 429}

C7_EmptyOutlineIsFatal ==
    outlineResponse \in {"empty", "missing"} =>
        /\ pc = "failed"
        /\ thrown = "No outline generated."
        /\ outlineCalls = 1
        /\ attempts = 0
        /\ lastSent = <<UserTurn(PromptText)>>
        /\ outlineEvents = <<>>
        /\ sectionEvents = <<>>
        /\ conversationHistory = <<>>
        /\ lastProgress = Progress("Error", 0)

C7_Witness == pc = "failed" /\ outlineResponse = "empty"

RetryableSectionFailure ==
    pc = "loop" /\ lastOutcome = "error" /\ lastStatus \in {503, 429}

\* C32: after a section request rejected with 503 or 429, the wait before the same
\* section is requested again is the delay of the retrier for that error and
\* that number of consecutive failures: min(baseDelay * 2^attempt, cap) for 503.
C32_SectionBackoff ==
    RetryableSectionFailure =>
        lastWait = RetryDelay(OpError(lastStatus, FALSE, <<>>), attempts - 1,
                              DefaultBaseDelayMs, AudioCapMs)

\* C33: the history sent with a request for section k has exactly 2k+1 turns:
\* the prompt, the outline, a CONTINUE turn and the content of each section
\* before k, and a last CONTINUE; the roles alternate, user first and user last.
C33_HistoryShape ==
    pc = "sectionReq" =>
        /\ Len(lastSent) = 2 * sectionCount + 1
        /\ \A i \in 1..Len(lastSent) :
              lastSent[i].role = (IF i % 2 = 1 THEN "user" ELSE "model")
        /\ lastSent[1] = UserTurn(PromptText)
        /\ \A j \in 1..sectionCount :
              2 * j + 1 <= Len(lastSent) => lastSent[2 * j + 1] = UserTurn(ContinueText)
        /\ lastSent[Len(lastSent)] = UserTurn(ContinueText)

\* the responder turns after the outline: one for each section recorded
SectionTurns ==
    SelectSeq(SubSeq(conversationHistory, 3, Len(conversationHistory)),
              LAMBDA t : t.role = "model")

\* C38: every section event and every responder section turn of the history carries
\* a content that is not empty, whatever text the remote service returned.
C38_RecordedSectionsNonEmpty ==
    /\ \A i \in 1..Len(sectionEvents) : sectionEvents[i].content # <<>>
    /\ \A i \in 1..Len(SectionTurns) : SectionTurns[i].text # <<>>

\* the number of `content + '\n\n\n'` pieces of a text whose contents hold no newline
SectionsIn(text) == Cardinality({i \in 1..Len(text) : text[i] = NL}) \div Len(Delimiter)

\* script.txt after the header written at lines 57-61
FileSections ==
    SubSeq(scriptFile, Len(OutlineHeader(conversationHistory[2].text)) + 1, Len(scriptFile))

\* C39: in the section loop the sections appended to the full script, those appended
\* to script.txt, the responder section turns of the history and the section events
\* are all sectionCount - 1 in number.
C39_CountsAgree ==
    pc \in {"loop", "sectionReq"} =>
        /\ SectionsIn(fullScript) = sectionCount - 1
        /\ SectionsIn(FileSections) = sectionCount - 1
        /\ Len(SectionTurns) = sectionCount - 1
        /\ Len(sectionEvents) = sectionCount - 1

OnlyRemoteFaults == \A i \in 1..Len(faults) : faults[i].class \in {"remote", "blank"}

-----------------------------------------------------------------------------
(* RateLimiter: properties *)

\* the calls that returned to the caller at a time in [t, t + windowMs)
AdmittedIn(t) ==
    {j \in 1..Len(admissions) :
        t <= admissions[j].admitted /\ admissions[j].admitted < t + windowMs}

\* C8: in every interval of length windowMs at most maxRequests calls are admitted
\* (the intervals that begin at an admission are the fullest ones).
C8_WindowCap ==
    \A i \in 1..Len(admissions) :
        Cardinality(AdmittedIn(admissions[i].admitted)) <= maxRequests

Waited(j) == admissions[j].admitted - admissions[j].called

OverflowCall == maxRequests + 1

OverflowInWindow ==
    /\ Len(admissions) >= OverflowCall
    /\ admissions[OverflowCall].called - admissions[1].called < windowMs

\* C9: from an empty window the first maxRequests calls return without waiting,
\* and a (maxRequests+1)th call made within windowMs of the first returns only when
\* the oldest timestamp is windowMs old, after
\* windowMs - (now - oldest) + 1000 ms.
C9_FirstCallsFreeThenWait ==
    /\ \A j \in 1..Len(admissions) : j <= maxRequests => Waited(j) = 0
    /\ OverflowInWindow =>
          /\ admissions[OverflowCall].admitted - admissions[1].called >= windowMs
          /\ Waited(OverflowCall) =
                 windowMs - (admissions[OverflowCall].called - admissions[1].called) + 1000

C9_Witness ==
    /\ OverflowInWindow
    /\ maxRequests = 2
    /\ admissions[OverflowCall].called > admissions[1].called
    /\ Waited(OverflowCall) > 1000

\* C34: the timestamp a call of waitIfNeeded leaves in the window is the time at
\* which the call returned, after its wait if it waited.
C34_RecordsAdmissionTime ==
    admissions # <<>> =>
        /\ requests # <<>>
        /\ requests[Len(requests)] = admissions[Len(admissions)].admitted

-----------------------------------------------------------------------------
(* retryWithBackoff: properties *)

AllAttemptsFailedRetryable ==
    /\ rpc = "threw"
    /\ maxRetries >= 1
    /\ Len(errors) = maxRetries + 1
    /\ \A i \in 1..Len(errors) : errors[i].status \in {503, 429}

\* C10: when all maxRetries+1 attempts fail with 503 or 429, the error surfaced is
\* the exhausted-retries error, not the last error of the operation.
C10_ExhaustedError == AllAttemptsFailedRetryable => outcome.exhausted

RetryEnded == rpc \in {"returned", "threw"}

\* C11: fn is invoked at most maxRetries+1 times, one first attempt and at most
\* maxRetries retries each preceded by one wait; the invocation that is the
\* (maxRetries+1)th is followed by a return or a throw, and the call ends right
\* after its last invocation, with no further wait.
C11_BoundedInvocations ==
    /\ invocations <= maxRetries + 1
    /\ Len(waits) <= maxRetries
    /\ (invocations = maxRetries + 1 /\ rpc # "calling") => RetryEnded
    /\ RetryEnded => Len(waits) = invocations - 1

C11_Witness ==
    /\ rpc = "threw" /\ maxRetries = MaxRetriesBound
    /\ invocations = maxRetries + 1
    /\ \A i \in 1..Len(errors) : errors[i].status \in {503, 429}

IsOther(e) == e.status \notin {503, 429}

LastErrorIsOther == errors # <<>> /\ IsOther(errors[Len(errors)])

\* C12: an error whose status is neither 503 nor 429 is not retried and not waited
\* on: the call has thrown that same error, fn was invoked once for it (once in
\* all when it is the first failure), and no wait follows it.
C12_OtherNotRetried ==
    LastErrorIsOther =>
        /\ rpc = "threw"
        /\ outcome = [kind |-> "threw", exhausted |-> FALSE, error |-> errors[Len(errors)]]
        /\ invocations = Len(errors)
        /\ Len(waits) = Len(errors) - 1
        /\ Len(errors) = 1 => (invocations = 1 /\ waits = <<>>)

C12_Witness ==
    /\ rpc = "threw" /\ maxRetries >= 1
    /\ errors = <<OpError(400, FALSE, <<>>)>>

\* the delay the overloaded case uses for 0-based attempt index a
CappedDelay(a) == Min(baseDelay * Pow2(a), capMs)

Overloaded(i) == errors[i].status = 503

\* C13: the wait after a 503 on attempt index a < maxRetries is
\* min(baseDelay * 2^a, cap), with cap 120000 (audio) or 60000 (image); it never
\* exceeds the cap and does not decrease with a.
C13_OverloadDelay ==
    /\ capMs \in {AudioCapMs, ImageCapMs}
    /\ \A i \in 1..Len(waits) :
          Overloaded(i) => (waits[i] = CappedDelay(i - 1) /\ waits[i] <= capMs)
    /\ \A i, j \in 1..Len(waits) :
          (i < j /\ Overloaded(i) /\ Overloaded(j)) => waits[i] <= waits[j]

C13_Witness ==
    /\ capMs = AudioCapMs
    /\ \E i \in 1..Len(waits) :
          /\ Overloaded(i)
          /\ baseDelay * Pow2(i - 1) > capMs
          /\ waits[i] = AudioCapMs
    /\ \E i \in 1..Len(waits) : Overloaded(i) /\ waits[i] < capMs

RECURSIVE Pow10(_)
Pow10(n) == IF n = 0 THEN 1 ELSE 10 * Pow10(n - 1)

\* a retryDelay string in the JSON form of a Duration: digits, optionally a point
\* and more digits, then "s"
IsDuration(text) ==
    /\ Len(text) >= 2
    /\ text[Len(text)] = CharS
    /\ IsDigit(text[1])
    /\ LET j == DigitsEnd(text, 1) IN
         \/ j = Len(text) - 1
         \/ /\ j + 2 <= Len(text) - 1
            /\ text[j + 1] = CharDot
            /\ IsDigit(text[j + 2])
            /\ DigitsEnd(text, j + 2) = Len(text) - 1

\* the milliseconds such a string stands for
DurationMs(text) ==
    LET j == DigitsEnd(text, 1)
        whole == DigitsValue(text, 1, j)
    IN  IF j = Len(text) - 1 THEN whole * 1000
        ELSE whole * 1000
             + (DigitsValue(text, j + 2, Len(text) - 1) * 1000)
                   \div Pow10(Len(text) - 1 - (j + 1))

HasHint(e) == e.status = 429 /\ e.retryInfo /\ IsDuration(e.retryDelay)

\* C14: the wait after a 429 that carries a RetryInfo hint of N seconds is
\* N * 1000 ms, whatever the attempt index.
C14_HintedDelay ==
    \A i \in 1..Len(waits) :
        HasHint(errors[i]) => waits[i] = DurationMs(errors[i].retryDelay)

\* C15: the wait after a 429 with no usable hint is the delay of the overloaded
\* case for the same attempt index, min(baseDelay * 2^a, cap).
C15_UnhintedDelay ==
    \A i \in 1..Len(waits) :
        (errors[i].status = 429 /\ ~HasHint(errors[i])) => waits[i] = CappedDelay(i - 1)

RECURSIVE SumSeq(_)
SumSeq(q) == IF q = <<>> THEN 0 ELSE Head(q) + SumSeq(Tail(q))

RECURSIVE ScheduleTotal(_)
ScheduleTotal(k) == IF k = 0 THEN 0 ELSE ScheduleTotal(k - 1) + CappedDelay(k - 1)

OverloadedThenResolved ==
    /\ rpc = "returned"
    /\ \A i \in 1..Len(errors) : Overloaded(i)

\* C16: when fn fails with 503 exactly k <= maxRetries times and then resolves,
\* the call returns the value fn resolved with after k+1 invocations, and the
\* waits add up to the sum over i < k of min(baseDelay * 2^i, cap).
C16_OverloadThenSuccess ==
    OverloadedThenResolved =>
        /\ Len(errors) <= maxRetries
        /\ invocations = Len(errors) + 1
        /\ outcome = [kind |-> "returned", value |-> resolved]
        /\ resolved \in OpValues
        /\ SumSeq(waits) = ScheduleTotal(Len(errors))

C16_Witness ==
    /\ OverloadedThenResolved
    /\ Len(errors) = 2 /\ maxRetries = 2
    /\ baseDelay = LargeBaseDelayMs /\ capMs = ImageCapMs
    /\ SumSeq(waits) = LargeBaseDelayMs + ImageCapMs
    /\ resolved = 2

-----------------------------------------------------------------------------
(* splitContentIntoChunks: properties *)

SentencesOf(chunk) == SplitSentences(chunk)

\* C17: every returned chunk has at most maxChunkSize characters, unless it is one
\* single sentence that is by itself longer than maxChunkSize.
C17_ChunkSizeBound ==
    cpc = "returned" =>
        \A i \in 1..Len(chunks) :
            \/ Len(chunks[i]) <= maxChunkSize
            \/ Len(SentencesOf(chunks[i])) = 1

\* text begins with part
StartsWith(text, part) ==
    Len(part) <= Len(text) /\ SubSeq(text, 1, Len(part)) = part

\* text is the chunks chs in order, with nothing but whitespace before, between and
\* after them
RECURSIVE Rebuilds(_, _)
Rebuilds(text, chs) ==
    LET rest == TrimStart(text) IN
    IF chs = <<>> THEN rest = <<>>
    ELSE /\ StartsWith(rest, Head(chs))
         /\ Rebuilds(SubSeq(rest, Len(Head(chs)) + 1, Len(rest)), Tail(chs))

\* C18 (as claimed): the chunks, concatenated in order with the boundaries between
\* chunks ignored, are the original text verbatim.
C18_ReproducesVerbatim == cpc = "returned" => Rebuilds(inputContent, chunks)

RECURSIVE AllSentences(_)
AllSentences(chs) ==
    IF chs = <<>> THEN <<>> ELSE SentencesOf(Head(chs)) \o AllSentences(Tail(chs))

\* the sentences of a text: none when it holds nothing but whitespace
InputSentences(text) ==
    IF Trim(text) = <<>> THEN <<>> ELSE SplitSentences(Trim(text))

\* C18 (amended): the sentences of the chunks, in order, are the sentences of the
\* trimmed input, each exactly once and whole; the whitespace between two sentences
\* is not kept (one space inside a chunk, nothing at a chunk boundary).
C18_KeepsSentences ==
    cpc = "returned" =>
        /\ AllSentences(chunks) = InputSentences(inputContent)
        /\ \A i \in 1..Len(chunks) : chunks[i] # <<>> /\ Trim(chunks[i]) = chunks[i]

C18_Witness ==
    /\ cpc = "returned"
    /\ Len(chunks) >= 2
    /\ \E i \in 1..Len(chunks) : Len(SentencesOf(chunks[i])) >= 2
    /\ ~Rebuilds(inputContent, chunks)

Oversized(sentence) == Len(sentence) > maxChunkSize

\* C35: a sentence longer than maxChunkSize is returned whole as a chunk of its
\* own: the chunk that holds it holds no other sentence, and the sentences of
\* the chunks are those of the input, wherever the long sentence stands.
C35_OversizedSentenceAlone ==
    cpc = "returned" =>
        /\ AllSentences(chunks) = InputSentences(inputContent)
        /\ \A i \in 1..Len(InputSentences(inputContent)) :
              Oversized(InputSentences(inputContent)[i]) =>
                  \E j \in 1..Len(chunks) : chunks[j] = InputSentences(inputContent)[i]
        /\ \A j \in 1..Len(chunks) :
              (\E k \in 1..Len(SentencesOf(chunks[j])) : Oversized(SentencesOf(chunks[j])[k]))
                  => Len(SentencesOf(chunks[j])) = 1

\* a long sentence between two short ones
C35_Witness ==
    /\ cpc = "returned"
    /\ Len(InputSentences(inputContent)) = 3
    /\ Oversized(InputSentences(inputContent)[2])
    /\ ~Oversized(InputSentences(inputContent)[1])
    /\ ~Oversized(InputSentences(inputContent)[3])
    /\ Len(chunks) = 3

-----------------------------------------------------------------------------
(* joinWavFiles: properties *)

\* C19: joinWavFiles with exactly one fragment writes a byte-identical copy of
\* it, header and data, and leaves the fragment unchanged.
C19_SingleFragmentCopied ==
    (jpc = "returned" /\ Len(inputFiles) = 1) =>
        /\ outputFile = inputFiles[1]
        /\ chunkFiles = inputFiles

C19_Witness ==
    /\ jpc = "returned"
    /\ Len(inputFiles) = 1
    /\ Len(outputFile) = HeaderBytes + MaxDataLen

\* the bytes of a file from offset 44 on
DataRegion(file) == [i \in 1..(Len(file) - 44) |-> file[i + 44]]

RECURSIVE DataRegions(_)
DataRegions(files) ==
    IF files = <<>> THEN <<>> ELSE DataRegion(Head(files)) \o DataRegions(Tail(files))

\* the channels, sample rate and bits per sample a file's header declares
DeclaredFormat(file) ==
    <<file[23] + 256 * file[24],
      file[25] + 256 * file[26] + 65536 * file[27] + 16777216 * file[28],
      file[35] + 256 * file[36]>>

\* the data length a file's header declares (offset 40, little endian)
DeclaredDataLength(file) ==
    file[41] + 256 * file[42] + 65536 * file[43] + 16777216 * file[44]

SameFormat(files) ==
    \A i, j \in 1..Len(files) : DeclaredFormat(files[i]) = DeclaredFormat(files[j])

JoinedSameFormat ==
    jpc = "returned" /\ Len(inputFiles) >= 2 /\ SameFormat(inputFiles)

\* C20: joinWavFiles with two or more fragments of one format writes one 44-byte
\* header of that format followed by the fragments' data regions in input order;
\* the declared data length is the sum of the fragments' data lengths and the
\* actual length of the data region.
C20_JoinedFragments ==
    JoinedSameFormat =>
        /\ Len(outputFile) >= 44
        /\ DataRegion(outputFile) = DataRegions(inputFiles)
        /\ DeclaredDataLength(outputFile)
               = SumSeq([i \in 1..Len(inputFiles) |-> Len(inputFiles[i]) - 44])
        /\ DeclaredDataLength(outputFile) = Len(outputFile) - 44
        /\ DeclaredFormat(outputFile) = DeclaredFormat(inputFiles[1])
        /\ SubSeq(outputFile, 1, 4) = <<82, 73, 70, 70>>
        /\ chunkFiles = inputFiles

C20_Witness ==
    /\ JoinedSameFormat
    /\ DataRegion(inputFiles[1]) = <<1, 2>>
    /\ DataRegion(inputFiles[2]) = <<2>>
    /\ DataRegion(outputFile) = <<1, 2, 2>>
    /\ DeclaredDataLength(outputFile) = 3

MixedFormatsJoined ==
    jpc \in {"returned", "threw"} /\ Len(inputFiles) >= 2 /\ ~SameFormat(inputFiles)

\* C21: joinWavFiles fails and writes no output when the fragments of one join do
\* not all declare the same channels, sample rate and bits per sample.
C21_MixedFormatsRejected ==
    MixedFormatsJoined => (jpc = "threw" /\ outputFile = <<>>)

-----------------------------------------------------------------------------
(* GenerateImage: properties *)

ImageEnded == ipc \in {"returned", "failed"}

OutcomesOf(log, how) == {i \in 1..Len(log) : log[i].outcome = how}

\* some sub-prompts failed in generation, others had their images saved, and no
\* callback threw
SomeFailedSomeSaved ==
    /\ ImageEnded
    /\ ithrown # "listener"
    /\ OutcomesOf(promptOutcomes, "error") # {}
    /\ OutcomesOf(promptOutcomes, "saved") # {}

\* the names of the images of sub-prompt p that carry imageBytes
ExpectedNames(copy, sec, p, given) ==
    LET name(i) == IF copy = "limited"
                   THEN <<15, 14>> \o Decimal(sec) \o <<14, 16, 14>> \o Decimal(p)
                            \o <<14, 17, 14>> \o Decimal(i) \o <<18>>
                   ELSE <<16, 14>> \o Decimal(p) \o <<14, 17, 14>> \o Decimal(i) \o <<18>>
        all == [i \in 1..Len(given) |-> IF given[i] THEN <<name(i - 1)>> ELSE <<>>]
    IN  Concat(all)

RECURSIVE ExpectedArtifacts(_)
ExpectedArtifacts(log) ==
    IF log = <<>> THEN <<>>
    ELSE ExpectedArtifacts(SubSeq(log, 1, Len(log) - 1))
         \o (IF log[Len(log)].outcome = "saved"
             THEN ExpectedNames(imageCopy, sectionIndex, log[Len(log)].unit,
                                log[Len(log)].given)
             ELSE <<>>)

\* C22: when generation fails for some sub-prompts and succeeds for others (and
\* nothing else goes wrong), the run returns, every sub-prompt was attempted in
\* derivation order, and the result is the images of the sub-prompts that
\* succeeded, in sub-prompt order.
C22_PartialFailureContained ==
    SomeFailedSomeSaved =>
        /\ ipc = "returned"
        /\ [i \in 1..Len(promptOutcomes) |-> promptOutcomes[i].unit]
               = [i \in 1..Len(imagePrompts) |-> i - 1]
        /\ iresult = ExpectedArtifacts(promptOutcomes)
        /\ \A i \in OutcomesOf(promptOutcomes, "error") :
               \A k \in 1..Len(iresult) :
                   iresult[k] \notin {ExpectedNames(imageCopy, sectionIndex,
                                        promptOutcomes[i].unit, <<TRUE>>)[1],
                                      ExpectedNames(imageCopy, sectionIndex,
                                        promptOutcomes[i].unit, <<FALSE, TRUE>>)[1]}

C22_Witness ==
    /\ ipc = "returned"
    /\ Len(imagePrompts) = 3
    /\ [i \in 1..Len(promptOutcomes) |-> promptOutcomes[i].outcome]
           = <<"saved", "error", "saved">>
    /\ Len(iresult) = 2

\* C23: GenerateImage fails exactly when no image was saved across all
\* sub-prompts; when at least one was saved it returns the saved paths.
C23_FailsOnlyWithoutImages ==
    ImageEnded =>
        /\ (ipc = "failed") <=> (savedImagePaths = <<>>)
        /\ savedImagePaths # <<>> => iresult = savedImagePaths

\* the remote calls of the run, by position in the log
RemoteCallsAt == {k \in 1..Len(imageCalls) : imageCalls[k].phase \in {"derive", "generate"}}

AdmittedBefore(k) ==
    \E a \in 1..(k - 1) :
        imageCalls[a].phase = "admit" /\ imageCalls[a].unit = imageCalls[k].unit

\* C27: in the copy with the limiter, every remote call of the run, the derivation
\* call included, follows a limiter admission for its unit, and a derivation call
\* rejected with 503 is retried and does not fail the run at once.
C27_BothPhasesGuarded ==
    imageCopy = "limited" =>
        /\ \A k \in RemoteCallsAt : AdmittedBefore(k)
        /\ ithrown = "remote 503" =>
              Cardinality({k \in RemoteCallsAt : imageCalls[k].phase = "derive"}) > 1

\* C28: every image this run wrote has a name of the form
\* section_<s>_prompt_<p>_image_<v>.jpg, and no name in the directory was written
\* for two different (section, sub-prompt, variant) triples.
C28_FileNamesDistinct ==
    /\ \A f \in imageDir :
          f.by[1] = sectionIndex =>
              f.name = ExpectedNames("limited", f.by[1], f.by[2],
                                     [i \in 1..(f.by[3] + 1) |-> i = f.by[3] + 1])[1]
    /\ \A f, g \in imageDir : f.name = g.name => f.by = g.by

-----------------------------------------------------------------------------
(* GenerateAudio: properties *)

AudioEnded == apc \in {"returned", "failed"}

NoChunksMessage == "No audio chunks were successfully generated."

ChunkFailures == {i \in 1..Len(chunkOutcomes) : chunkOutcomes[i].outcome # "done"}

\* C24: in a run that ended after the failure of some chunk, every chunk was
\* attempted, in index order; a run that ended with 'No audio chunks were
\* successfully generated.' had no chunk that produced a fragment and wrote no
\* output file, and a run that returned had a chunk that produced one.
C24_ChunkFailuresContained ==
    AudioEnded =>
        /\ ChunkFailures # {} =>
              [i \in 1..Len(chunkOutcomes) |-> chunkOutcomes[i].unit]
                  = [i \in 1..chunkTotal |-> i - 1]
        /\ athrown = NoChunksMessage =>
              /\ \A i \in 1..Len(chunkOutcomes) : chunkOutcomes[i].given = <<>>
              /\ completeAudio = <<>>
        /\ (apc = "returned") =>
              \E i \in 1..Len(chunkOutcomes) : chunkOutcomes[i].given # <<>>

-----------------------------------------------------------------------------
(* two runs at once: properties *)

Constructed(r) == runState[r].limiter # 0

\* the waitIfNeeded calls a run has made
AdmissionsOf(r) == runState[r].unit + (IF runState[r].at = "calling" THEN 1 ELSE 0)

\* C30: two runs never use the same RateLimiter object or the same attempt
\* variable: each limiter was called by one run only and holds exactly the
\* timestamps of that run's admissions, and each attempt variable was read and
\* advanced by the run that entered that retryWithBackoff activation only.
C30_RunsShareNothing ==
    /\ \A r1, r2 \in Runs :
          (r1 # r2 /\ Constructed(r1) /\ Constructed(r2)) =>
              /\ runState[r1].limiter # runState[r2].limiter
              /\ (runState[r1].cell # 0 /\ runState[r2].cell # 0) =>
                    runState[r1].cell # runState[r2].cell
    /\ \A r \in Runs :
          Constructed(r) =>
              /\ \A k \in 1..Len(touched[runState[r].limiter]) :
                    touched[runState[r].limiter][k] = r
              /\ Len(windows[runState[r].limiter]) = AdmissionsOf(r)
    /\ \A c \in 1..Len(touchedCell) : Cardinality(touchedCell[c]) = 1

\* both runs are inside a retried call at the same time, each already admitted
C30_Witness ==
    /\ \A r \in Runs :
          /\ runState[r].at = "calling"
          /\ attemptCell[runState[r].cell] >= 1
          /\ Len(windows[runState[r].limiter]) >= 1
    /\ runKind[1] # runKind[2]

\* the chunks whose stream ended normally
DoneChunks == {chunkOutcomes[i].unit : i \in OutcomesOf(chunkOutcomes, "done")}

\* the samples sent for the chunks that ended normally, in the order they arrived
ExpectedSamples ==
    Concat([i \in 1..Len(fragmentLog) |->
               IF fragmentLog[i].chunk \in DoneChunks THEN fragmentLog[i].samples
               ELSE <<>>])

\* C36: after a run that returned, the data region of COMPLETE_AUDIO.wav is the
\* samples of the fragments of the chunks that succeeded, by increasing chunk
\* index and, within a chunk, in stream order; a failed chunk adds nothing; the
\* header declares the length of that region.
C36_AssembledInOrder ==
    apc = "returned" =>
        /\ \A i, j \in 1..Len(fragmentLog) :
              i < j => fragmentLog[i].chunk <= fragmentLog[j].chunk
        /\ Len(completeAudio) >= HeaderBytes
        /\ DataRegion(completeAudio) = ExpectedSamples
        /\ DeclaredDataLength(completeAudio) = Len(ExpectedSamples)

\* three chunks, the second failing after one of its fragments was saved
C36_Witness ==
    /\ apc = "returned"
    /\ [i \in 1..Len(chunkOutcomes) |-> chunkOutcomes[i].outcome]
           = <<"done", "streamError", "done">>
    /\ Len(fragmentLog) = 3
    /\ DataRegion(completeAudio) = <<1, 2>>

DiskNames == {f.name : f \in audioDisk}

SavedNames == {fragmentLog[i].name : i \in 1..Len(fragmentLog)}

ListedNames == {allChunkFiles[i] : i \in 1..Len(allChunkFiles)}

\* C37: a fragment file is deleted only once the join has written the assembled
\* file; when the join fails the run fails and every fragment is still there; and
\* when an unlink fails after the join (and no callback throws) the run still
\* returns and every other listed fragment is deleted.
C37_CleanupAfterJoin ==
    /\ SavedNames \ DiskNames # {} => Len(completeAudio) >= HeaderBytes
    /\ athrown = "join" =>
          apc = "failed" /\ completeAudio = <<>> /\ SavedNames \subseteq DiskNames
    /\ (AudioEnded /\ unlinkFailed # {} /\ athrown # "listener") =>
          /\ apc = "returned"
          /\ ListedNames \cap DiskNames = unlinkFailed

\* three listed fragments, the unlink of the second fails, the others are gone
C37_Witness ==
    /\ apc = "returned"
    /\ Len(allChunkFiles) = 3
    /\ unlinkFailed = {allChunkFiles[2]}
    /\ allChunkFiles[1] \notin DiskNames
    /\ allChunkFiles[3] \notin DiskNames

AdmitsOf(c) ==
    {k \in 1..Len(audioCalls) : audioCalls[k].phase = "admit" /\ audioCalls[k].unit = c}

StreamCallsOf(c) ==
    {k \in 1..Len(audioCalls) : audioCalls[k].phase = "stream" /\ audioCalls[k].unit = c}

C31_AbandonedRunStops ==
    abandonedAt # <<>> =>
        /\ Len(StreamCalls(audioCalls)) = abandonedAt[1]
        /\ Len(audioEvents) = abandonedAt[2]

-----------------------------------------------------------------------------
(* progress events: properties *)

\* C26: every retry of retryWithBackoff is delivered to the caller's progress
\* listener before the retried attempt starts, one event per retry, carrying the
\* attempt number and the attempt ceiling.
C26_RetriesReported ==
    /\ Len(retryEvents) = Len(waits)
    /\ \A i \in 1..Len(retryEvents) :
          retryEvents[i] = [attempt |-> i, ceiling |-> maxRetries + 1]

\* C29: an emission to a listener never makes a run fail or retry a step: no run
\* ends with the listener's exception as its error, and no section attempt is
\* repeated because a listener threw.
C29_EmissionHarmless ==
    /\ thrown # "listener"
    /\ \A i \in 1..Len(faults) : faults[i].class # "listener"

FailureEvents(events) == {i \in 1..Len(events) : events[i].msg \in {"Error", "Warning"}}

\* C25: a run that fails has delivered at least one progress event about the
\* failure by the time the failure reaches the caller, and so has a run that
\* skipped a sub-prompt.
C25_FailuresReported ==
    (ipc = "failed" \/ OutcomesOf(promptOutcomes, "error") # {}) =>
        FailureEvents(imageEvents) # {}

====
